---- MODULE Spec2Model ----
(***************************************************************************)
(* stock-webhook: the ingest path (handlePostWebhook, writeBodyToFile),    *)
(* the retention policy (enforceRetention) and the read views              *)
(* (handleGetIndex, handleGetView, handleGetRaw) over one store directory. *)
(*                                                                         *)
(* Every action is one synchronous segment of a handler: the filesystem    *)
(* call an `await` waits for, together with the code that runs when it     *)
(* returns, up to the next `await`.  Handlers of different requests        *)
(* interleave only at those points (Node's event loop).                    *)
(***************************************************************************)
EXTENDS Integers, Sequences, FiniteSets, TLC

\* ------------------------------------------------------------------ bounds
NumReq == 3        \* POST requests in one run
NumConc == 2       \* of them, requests that may run concurrently
MaxClock == 1      \* clock seconds 0..MaxClock
MaxIdent == 1      \* random suffixes 0..MaxIdent
MaxByte == 1       \* byte values 0..MaxByte
MaxChunk == 2      \* longest chunk the request stream delivers
MaxSent == 4       \* most bytes one request stream delivers
MaxBody == 3       \* largest configured STOCKHOOK_MAX_BODY
MaxPreview == 2    \* largest configured STOCKHOOK_PREVIEW_BYTES
MaxKeep == 2       \* largest configured STOCKHOOK_MAX_RECORDS
MaxIdLen == 2      \* longest id text a reader asks for
MaxDir == 51       \* most records in the directory a list is taken of

\* ------------------------------------------------------- program constants
HashMod == 64      \* width of the modelled digest
ListLimit == 50    \* handleGetIndex: files.slice(0, 50)

None == "none"
NoLength == -1     \* expectedLength = null: no content-length header
BadLength == -2    \* a content-length header that is not /^\d+$/
NoId == <<-1, -1>>
NoName == [id |-> NoId, ext |-> ""]
NoResp == [code |-> 0, text |-> ""]
Reqs == 1..NumReq
ConcReqs == 1..NumConc
Bytes == 0..MaxByte
Idents == (0..MaxClock) \X (0..MaxIdent)

VARIABLES
    maxBody,        \* config.maxBody()
    previewLimit,   \* config.previewLimit()
    maxRecords,     \* config.maxRecords()
    token,          \* process.env.STOCKHOOK_TOKEN
    audit,          \* observer: the calls of enforceRetention are kept in ret[p].log
    clock,          \* the UTC clock, in seconds
    fs,             \* the store directory: file name -> content
    pc,             \* pc[p]: where request p's handler is
    clen,           \* clen[p]: the content-length header (NoLength, BadLength or a number)
    hdr,            \* hdr[p]: the content-type header and the tokens the request carries
    id,             \* id[p]: <<now, ident>> of handlePostWebhook
    tap,            \* tap[p]: writeBodyToFile's written, hasher, preview
    pend,           \* pend[p]: bytes the tap forwarded, not yet in the file
    err,            \* err[p]: the code of the error that rejected the pipeline
    ret,            \* ret[p]: enforceRetention's stale list and bodyName
    resp,           \* resp[p]: the response sent (None before)
    total,          \* total[p]: the size of the payload the client sends
    sent,           \* history: every byte request p's stream delivered
    rd              \* the reader (handleGetIndex / handleGetView / handleGetRaw)

vars == <<maxBody, previewLimit, maxRecords, token, audit, clock, fs, pc, clen, hdr, id, tap,
          pend, err, ret, resp, total, sent, rd>>
cfgVars == <<maxBody, previewLimit, maxRecords, token, audit>>

\* ---------------------------------------------------------------- helpers
Min(a, b) == IF a < b THEN a ELSE b

\* Mutant: the whole sequence, the limit forgotten.
TakeAll(s, n) == s

\* s.slice(0, n), chunk.subarray(0, n)
Take(s, n) == SubSeq(s, 1, Min(n, Len(s)))

\* crypto.createHash('sha256'): the digest is a running fold over the bytes fed.
Sha256Init == 7

HashByte(h, b) == (h * 5 + b + 1) % HashMod

RECURSIVE HashUpdate(_, _)
HashUpdate(h, chunk) ==
    IF chunk = <<>> THEN h
    ELSE HashUpdate(HashByte(h, Head(chunk)), Tail(chunk))

Sha256(bytes) == HashUpdate(Sha256Init, bytes)

\* ------------------------------------------------------------- file names
\* `${now}-${ident}.json`, `${now}-${ident}.body` and their `.tmp` siblings.
RecordName(i) == [id |-> i, ext |-> "json"]
BodyName(i) == [id |-> i, ext |-> "body"]
TmpBodyPath(i) == [id |-> i, ext |-> "body.tmp"]
\* Mutant: the record is written straight to its final path.
TmpRecordPathFinal(i) == [id |-> i, ext |-> "json"]

TmpRecordPath(i) == [id |-> i, ext |-> "json.tmp"]

\* ------------------------------------------------------------------ texts
\* An id in a query string and a body_file in a record document are texts:
\* sequences of characters.  A character is one of ' ', '.', '/', '\', some
\* other character 'a', or "name": a whole well-formed file name of the store
\* (digits, '-', hex digits and an extension: no '/', no '\', no '..').
Ch(c) == [ch |-> c, ref |-> NoName]

NameText(name) == <<[ch |-> "name", ref |-> name]>>

RECURSIVE TrimStart(_)
TrimStart(s) == IF s # <<>> /\ Head(s).ch = " " THEN TrimStart(Tail(s)) ELSE s

RECURSIVE TrimEnd(_)
TrimEnd(s) ==
    IF s # <<>> /\ s[Len(s)].ch = " " THEN TrimEnd(SubSeq(s, 1, Len(s) - 1)) ELSE s

\* String.prototype.trim
Trim(s) == TrimEnd(TrimStart(s))

\* s.includes(c) for a single character, and s.includes('..')
Includes(s, c) == \E k \in 1..Len(s) : s[k].ch = c

IncludesDotDot(s) == \E k \in 1..(Len(s) - 1) : s[k].ch = "." /\ s[k + 1].ch = "."

\* A file that is not in the store directory.
Outside == [id |-> NoId, ext |-> "outside"]

\* path.join(dir, text): a file name of the store is that file of the store
\* directory; a text with a separator or '..' leads out of the directory; any
\* other text names no file.
PathJoin(text) ==
    IF Len(text) = 1 /\ text[1].ch = "name" THEN text[1].ref
    ELSE IF IncludesDotDot(text) \/ Includes(text, "/") \/ Includes(text, "\\")
         THEN Outside
    ELSE NoName

\* Plain string comparison of two names with the same extension: the stamp is
\* fixed-width digits and the suffix fixed-width hex, so it is lexicographic
\* on <<now, ident>>.
NameLess(a, b) ==
    \/ a.id[1] < b.id[1]
    \/ a.id[1] = b.id[1] /\ a.id[2] < b.id[2]

Exists(f, name) == name \in DOMAIN f

WriteFile(f, name, content) ==
    [n \in DOMAIN f \cup {name} |-> IF n = name THEN content ELSE f[n]]

\* fs.promises.unlink with the error ignored: ENOENT leaves the directory as it is.
Unlink(f, name) == [n \in DOMAIN f \ {name} |-> f[n]]

\* fs.promises.rename: replaces the destination atomically.
Rename(f, from, to) ==
    [n \in (DOMAIN f \ {from}) \cup {to} |-> IF n = to THEN f[from] ELSE f[n]]

BytesFile(b) == [kind |-> "bytes", bytes |-> b]
JsonFile(doc, complete) == [kind |-> "json", complete |-> complete, doc |-> doc]

\* JSON.parse(readFile(path)): fails on a missing file and on a document that
\* is not (yet) complete JSON.
Parses(f, name) == Exists(f, name) /\ f[name].kind = "json" /\ f[name].complete

\* readdir(dir).filter(n => n.endsWith('.json'))
JsonNames(f) == {n \in DOMAIN f : n.ext = "json"}

\* names.sort().reverse()
RECURSIVE SortDesc(_)
SortDesc(S) ==
    IF S = {} THEN <<>>
    ELSE LET m == CHOOSE x \in S : \A y \in S \ {x} : NameLess(y, x)
         IN <<m>> \o SortDesc(S \ {m})

\* Mutant: slice(keep + 1).
SliceLate(s, from) == SubSeq(s, from + 2, Len(s))

\* names.slice(keep)
Slice(s, from) == SubSeq(s, from + 1, Len(s))

Reverse(s) == [k \in 1..Len(s) |-> s[Len(s) + 1 - k]]

\* Mutant: names.sort() without reverse(): the oldest names are kept.
StaleNewest(f, keep) == Slice(Reverse(SortDesc(JsonNames(f))), keep)

\* The stale records of lines 18..23: every name beyond position keep, newest
\* first.
Stale(f, keep) == Slice(SortDesc(JsonNames(f)), keep)

\* ------------------------------------------------------- request headers
\* The headers and the query a request carries, as texts; <<>> is a header
\* that is absent.  In a content-type or an authorization header a whole word
\* ("application/json", "charset=utf-8", "Bearer") is one character.
NoHeaders == [ctype |-> <<>>, xtoken |-> <<>>, auth |-> <<>>, qtoken |-> <<>>]

Secret == <<Ch("a")>>

\* A request with the server's token in x-stockhook-token and no content-type.
Plain == [NoHeaders EXCEPT !.xtoken = Secret]

\* auth.toLowerCase().startsWith('bearer ')
StartsWithBearer(s) == Len(s) >= 2 /\ s[1].ch \in {"bearer", "Bearer"} /\ s[2].ch = " "

\* getProvidedToken: the header, else the bearer credentials, else the query.
GetProvidedToken(h) ==
    IF Trim(h.xtoken) # <<>> THEN Trim(h.xtoken)
    ELSE IF StartsWithBearer(Trim(h.auth))
         THEN Trim(SubSeq(Trim(h.auth), 3, Len(Trim(h.auth))))
    ELSE Trim(h.qtoken)

\* Mutant: tokens of the same length compare equal.
SafeCompareTokenLength(provided, expected) ==
    /\ provided # <<>> /\ expected # <<>>
    /\ Len(provided) = Len(expected)

\* safeCompareToken: both non-empty, the same length, the same bytes.
SafeCompareToken(provided, expected) ==
    /\ provided # <<>> /\ expected # <<>>
    /\ Len(provided) = Len(expected)
    /\ \A k \in 1..Len(provided) : provided[k] = expected[k]

\* requireToken: what it decides, and the response it sends when it refuses.
RequireToken(h, envToken) ==
    IF Trim(envToken) = <<>> THEN "server token not configured"
    ELSE IF SafeCompareToken(GetProvidedToken(h), Trim(envToken)) THEN "ok"
    ELSE "unauthorized"

RECURSIVE BeforeSemicolon(_)
\* ctRaw.split(';')[0]
BeforeSemicolon(s) ==
    IF s = <<>> \/ Head(s).ch = ";" THEN <<>> ELSE <<Head(s)>> \o BeforeSemicolon(Tail(s))

OctetStream == <<Ch("application/octet-stream")>>

\* contentType of lines 69..70.
ContentType(raw) ==
    LET ctRaw == IF raw = <<>> THEN OctetStream ELSE raw
        ct == Trim(BeforeSemicolon(ctRaw))
    IN IF ct = <<>> THEN OctetStream ELSE ct

\* contentType === 'application/json' || contentType === 'text/json'
IsJsonType(ct) == ct = <<Ch("application/json")>> \/ ct = <<Ch("text/json")>>

\* ---------------------------------------------------------------- decoding
\* A field of the record document that is null or holds a sequence (code
\* points of a text, the serialization of a JSON value, base64 digits).
Null == [null |-> TRUE, val |-> <<>>]
Val(v) == [null |-> FALSE, val |-> v]

\* UTF-8: the number of continuation bytes a lead byte announces (-1: not a
\* lead byte) and the range its first continuation byte must lie in.
Utf8Need(b) ==
    IF b >= 194 /\ b <= 223 THEN 1
    ELSE IF b >= 224 /\ b <= 239 THEN 2
    ELSE IF b >= 240 /\ b <= 244 THEN 3
    ELSE -1

Utf8Second(lead) ==
    IF lead = 224 THEN 160..191
    ELSE IF lead = 237 THEN 128..159
    ELSE IF lead = 240 THEN 144..191
    ELSE IF lead = 244 THEN 128..143
    ELSE 128..191

RECURSIVE Utf8Tail(_, _, _)
\* How many of the `need` continuation bytes follow the lead byte.
Utf8Tail(bytes, lead, need) ==
    IF need = 0 \/ bytes = <<>> THEN 0
    ELSE IF Head(bytes) \in (IF lead = 0 THEN 128..191 ELSE Utf8Second(lead))
         THEN 1 + Utf8Tail(Tail(bytes), 0, need - 1)
    ELSE 0

RECURSIVE Utf8Point(_, _)
\* The code point of a well-formed sequence, acc being the lead byte's bits.
Utf8Point(acc, conts) ==
    IF conts = <<>> THEN acc ELSE Utf8Point(acc * 64 + (Head(conts) - 128), Tail(conts))

Replacement == 65533

RECURSIVE Utf8Decode(_)
\* The decoder both decodings share: the code points, U+FFFD for every
\* ill-formed sequence, and whether there was one.
Utf8Decode(bytes) ==
    IF bytes = <<>> THEN [ok |-> TRUE, text |-> <<>>]
    ELSE LET b == Head(bytes)
             need == Utf8Need(b)
             got == IF need < 0 THEN 0 ELSE Utf8Tail(Tail(bytes), b, need)
             whole == b < 128 \/ (need > 0 /\ got = need)
             point == IF b < 128 THEN b
                      ELSE Utf8Point(b - (IF need = 1 THEN 192 ELSE IF need = 2 THEN 224 ELSE 240),
                                     SubSeq(bytes, 2, 1 + got))
             rest == Utf8Decode(SubSeq(bytes, 2 + got, Len(bytes)))
         IN [ok |-> whole /\ rest.ok,
             text |-> <<IF whole THEN point ELSE Replacement>> \o rest.text]

\* TextDecoder drops a leading byte order mark.
StripBom(text) == IF text # <<>> /\ Head(text) = 65279 THEN Tail(text) ELSE text

\* decodeUtf8Strict(buf): throws on an ill-formed sequence.
DecodeUtf8Strict(bytes) ==
    LET d == Utf8Decode(bytes)
    IN [ok |-> d.ok, text |-> IF d.ok THEN StripBom(d.text) ELSE <<>>]

\* buf.toString('utf8'): never throws, ill-formed sequences become U+FFFD.
ToStringUtf8(bytes) == Utf8Decode(bytes).text

\* JSON.parse on code points, for texts of '[', ']', ',', digits, blanks and
\* characters that start no JSON value: arrays of integers.  The value is
\* kept as its serialization without blanks.
JsonBlank(c) == c \in {32, 9, 10, 13}

RECURSIVE SkipBlanks(_, _)
SkipBlanks(s, i) == IF i <= Len(s) /\ JsonBlank(s[i]) THEN SkipBlanks(s, i + 1) ELSE i

RECURSIVE SkipDigits(_, _)
SkipDigits(s, i) == IF i <= Len(s) /\ s[i] \in 48..57 THEN SkipDigits(s, i + 1) ELSE i

JsonFail == [ok |-> FALSE, next |-> 0, out |-> <<>>]

RECURSIVE JsonValue(_, _)
RECURSIVE JsonElements(_, _, _)
JsonValue(s, i) ==
    LET j == SkipBlanks(s, i)
    IN IF j > Len(s) THEN JsonFail
       ELSE IF s[j] = 91
            THEN LET k == SkipBlanks(s, j + 1)
                 IN IF k <= Len(s) /\ s[k] = 93
                    THEN [ok |-> TRUE, next |-> k + 1, out |-> <<91, 93>>]
                    ELSE JsonElements(s, j + 1, <<91>>)
       ELSE IF s[j] = 48 THEN [ok |-> TRUE, next |-> j + 1, out |-> <<48>>]
       ELSE IF s[j] \in 49..57
            THEN [ok |-> TRUE, next |-> SkipDigits(s, j),
                  out |-> SubSeq(s, j, SkipDigits(s, j) - 1)]
       ELSE JsonFail

JsonElements(s, i, acc) ==
    LET v == JsonValue(s, i)
        k == SkipBlanks(s, v.next)
    IN IF ~v.ok \/ k > Len(s) THEN JsonFail
       ELSE IF s[k] = 44 THEN JsonElements(s, k + 1, acc \o v.out \o <<44>>)
       ELSE IF s[k] = 93 THEN [ok |-> TRUE, next |-> k + 1, out |-> acc \o v.out \o <<93>>]
       ELSE JsonFail

JsonParse(text) ==
    LET v == JsonValue(text, 1)
    IN IF v.ok /\ SkipBlanks(text, v.next) > Len(text)
       THEN [ok |-> TRUE, value |-> v.out]
       ELSE [ok |-> FALSE, value |-> <<>>]

\* buf.toString('base64'): digits 0..63, 64 for the padding '='.
RECURSIVE Base64(_)
Base64(bytes) ==
    IF bytes = <<>> THEN <<>>
    ELSE LET b1 == bytes[1]
             b2 == IF Len(bytes) >= 2 THEN bytes[2] ELSE 0
             b3 == IF Len(bytes) >= 3 THEN bytes[3] ELSE 0
         IN <<b1 \div 4,
              (b1 % 4) * 16 + (b2 \div 16),
              IF Len(bytes) >= 2 THEN (b2 % 16) * 4 + (b3 \div 64) ELSE 64,
              IF Len(bytes) >= 3 THEN b3 % 64 ELSE 64>>
            \o Base64(SubSeq(bytes, 4, Len(bytes)))

\* Mutant: a JSON preview that parsed is also kept as text.
DecodeBoth(contentType, preview) ==
    LET strict == DecodeUtf8Strict(preview)
        parsed == IF strict.ok THEN JsonParse(strict.text) ELSE [ok |-> FALSE, value |-> <<>>]
    IN IF IsJsonType(contentType) /\ preview # <<>>
       THEN IF parsed.ok
            THEN [body_json |-> Val(parsed.value), body_text |-> Val(strict.text),
                  body_b64 |-> Null]
            ELSE [body_json |-> Null, body_text |-> Val(ToStringUtf8(preview)),
                  body_b64 |-> Null]
       ELSE IF preview # <<>>
            THEN IF strict.ok
                 THEN [body_json |-> Null, body_text |-> Val(strict.text), body_b64 |-> Null]
                 ELSE [body_json |-> Null, body_text |-> Null, body_b64 |-> Val(Base64(preview))]
       ELSE [body_json |-> Null, body_text |-> Null, body_b64 |-> Null]

\* Lines 125..143: decodedBody, bodyText, bodyB64 from the preview.
Decode(contentType, preview) ==
    LET strict == DecodeUtf8Strict(preview)
        parsed == IF strict.ok THEN JsonParse(strict.text) ELSE [ok |-> FALSE, value |-> <<>>]
    IN IF IsJsonType(contentType) /\ preview # <<>>
       THEN IF parsed.ok
            THEN [body_json |-> Val(parsed.value), body_text |-> Null, body_b64 |-> Null]
            ELSE [body_json |-> Null, body_text |-> Val(ToStringUtf8(preview)),
                  body_b64 |-> Null]
       ELSE IF preview # <<>>
            THEN IF strict.ok
                 THEN [body_json |-> Null, body_text |-> Val(strict.text), body_b64 |-> Null]
                 ELSE [body_json |-> Null, body_text |-> Null, body_b64 |-> Val(Base64(preview))]
       ELSE [body_json |-> Null, body_text |-> Null, body_b64 |-> Null]

\* ------------------------------------------------------------ the handler
Response(code, text) == [code |-> code, text |-> text]

NoTap == [written |-> 0, hash |-> Sha256Init, preview |-> <<>>]
NoRet == [stale |-> <<>>, bodyName |-> <<>>, log |-> <<>>]
NoDoc == [content_type |-> <<>>, body_file |-> <<>>, body_size |-> 0, body_sha256 |-> 0,
          preview_truncated |-> FALSE, body_json |-> Null, body_text |-> Null,
          body_b64 |-> Null]
\* The reader: pc, the id asked for, raw (handleGetRaw) or not (handleGetView),
\* handleGetIndex's files still to read and records pushed, and the answer:
\* its status, the record parsed and the blob bytes streamed.
NoRd == [pc |-> "idle", query |-> <<>>, name |-> NoName, raw |-> FALSE, todo |-> <<>>, out |-> <<>>,
         code |-> 0, doc |-> NoDoc, streamed |-> FALSE, bytes |-> <<>>]

Active(p) == pc[p] \notin {"idle", "done"}
InRetention(p) == pc[p] \in {"readdir", "ret_read", "ret_unlink", "ret_unlink_body"}

Finish(p, code, text) ==
    /\ pc' = [pc EXCEPT ![p] = "done"]
    /\ resp' = [resp EXCEPT ![p] = Response(code, text)]

\* ------------------------------------------------------------------- Init
NoFiles == [n \in {} |-> None]

\* No request has arrived yet.
InitIdle ==
    /\ clock = 0
    /\ pc = [p \in Reqs |-> "idle"]
    /\ clen = [p \in Reqs |-> NoLength]
    /\ hdr = [p \in Reqs |-> NoHeaders]
    /\ id = [p \in Reqs |-> NoId]
    /\ tap = [p \in Reqs |-> NoTap]
    /\ pend = [p \in Reqs |-> <<>>]
    /\ err = [p \in Reqs |-> None]
    /\ ret = [p \in Reqs |-> NoRet]
    /\ resp = [p \in Reqs |-> NoResp]
    /\ total = [p \in Reqs |-> 0]
    /\ sent = [p \in Reqs |-> <<>>]
    /\ rd = NoRd

InitRequests ==
    /\ fs = NoFiles
    /\ InitIdle

\* --------------------------------------------- handlePostWebhook, 46..83
Lengths == 0..(MaxBody + 1)
Headers == {NoLength, BadLength} \cup Lengths

\* Requests are numbered in the order they arrive.
Arrives(p) == pc[p] = "idle" /\ (IF p = 1 THEN TRUE ELSE pc[p - 1] # "idle")

Fresh(i) == \A q \in Reqs : id[q] # i

\* Mutant: `expectedLength < 0` for `expectedLength <= 0`.
HeaderVerdictLax(cl, limit) ==
    IF cl = NoLength THEN "ok"
    ELSE IF cl = BadLength THEN "invalid content-length"
    ELSE IF cl > limit THEN "payload too large"
    ELSE "ok"

\* Lines 46..67: what the content-length header decides before any file is
\* touched.
HeaderVerdict(cl, limit) ==
    IF cl = NoLength THEN "ok"
    ELSE IF cl = BadLength THEN "invalid content-length"
    ELSE IF cl <= 0 THEN "empty body"
    ELSE IF cl > limit THEN "payload too large"
    ELSE "ok"

\* Line 44: requireToken refuses the request, 500 or 401.
RejectToken(p, h) ==
    /\ Arrives(p)
    /\ RequireToken(h, token) # "ok"
    /\ hdr' = [hdr EXCEPT ![p] = h]
    /\ IF RequireToken(h, token) = "unauthorized"
       THEN Finish(p, 401, "unauthorized")
       ELSE Finish(p, 500, "server token not configured")
    /\ UNCHANGED <<cfgVars, clock, fs, clen, id, tap, pend, err, ret, total, sent, rd>>

RejectHeader(p, h, cl) ==
    /\ Arrives(p)
    /\ RequireToken(h, token) = "ok"
    /\ hdr' = [hdr EXCEPT ![p] = h]
    /\ HeaderVerdict(cl, maxBody) # "ok"
    /\ clen' = [clen EXCEPT ![p] = cl]
    /\ IF HeaderVerdict(cl, maxBody) = "payload too large"
       THEN Finish(p, 413, "payload too large")
       ELSE Finish(p, 400, HeaderVerdict(cl, maxBody))
    /\ UNCHANGED <<cfgVars, clock, fs, id, tap, pend, err, ret, total, sent, rd>>

\* utcNowStamp(), randomBytes(6), the four paths, then `await mkdir`.  The
\* client is about to send a payload of n bytes.
Accept(p, h, cl, i, n) ==
    /\ Arrives(p)
    /\ RequireToken(h, token) = "ok"
    /\ hdr' = [hdr EXCEPT ![p] = h]
    /\ HeaderVerdict(cl, maxBody) = "ok"
    /\ i[1] >= clock
    /\ clock' = i[1]
    /\ clen' = [clen EXCEPT ![p] = cl]
    /\ id' = [id EXCEPT ![p] = i]
    /\ total' = [total EXCEPT ![p] = n]
    /\ pc' = [pc EXCEPT ![p] = "open"]
    /\ UNCHANGED <<cfgVars, fs, tap, pend, err, ret, resp, sent, rd>>

\* ------------------------------------------------- writeBodyToFile, 57..101
\* fs.createWriteStream(outPath, {flags: 'wx'}): EEXIST when the path exists.
OpenBody(p) ==
    /\ pc[p] = "open"
    /\ IF maxBody <= 0 \/ Exists(fs, TmpBodyPath(id[p]))
       THEN /\ err' = [err EXCEPT ![p] = IF maxBody <= 0 THEN "INVALID" ELSE "EEXIST"]
            /\ pc' = [pc EXCEPT ![p] = "wfail"]
            /\ fs' = fs
       ELSE /\ fs' = WriteFile(fs, TmpBodyPath(id[p]), BytesFile(<<>>))
            /\ pc' = [pc EXCEPT ![p] = "stream"]
            /\ err' = err
    /\ UNCHANGED <<cfgVars, clock, clen, hdr, id, tap, pend, ret, resp, total, sent, rd>>

\* Mutant: the tap without the maxBytes check.
TapVerdictNoLimit(t, chunk, maxBytes, expectedLength) ==
    IF expectedLength # NoLength /\ t.written + Len(chunk) > expectedLength
    THEN "TOO_MUCH_DATA"
    ELSE "ok"

\* The tap's transform(chunk): the verdict on one chunk.
TapVerdict(t, chunk, maxBytes, expectedLength) ==
    LET written == t.written + Len(chunk)
    IN IF written > maxBytes THEN "PAYLOAD_TOO_LARGE"
       ELSE IF expectedLength # NoLength /\ written > expectedLength THEN "TOO_MUCH_DATA"
       ELSE "ok"

\* Mutant: `previewBytes <= previewMax`, and at least one byte is taken.
PreviewPushOneMore(preview, chunk, previewMax) ==
    IF Len(preview) <= previewMax
    THEN preview \o Take(chunk, Min(previewMax - Len(preview) + 1, Len(chunk)))
    ELSE preview

\* Mutant: the whole chunk is pushed, `take` forgotten.
PreviewPushWhole(preview, chunk, previewMax) ==
    IF Len(preview) < previewMax THEN preview \o chunk ELSE preview

\* previewChunks.push(chunk.subarray(0, take)); previewBytes += take
PreviewPush(preview, chunk, previewMax) ==
    IF Len(preview) < previewMax
    THEN preview \o Take(chunk, Min(previewMax - Len(preview), Len(chunk)))
    ELSE preview

\* Mutant: hasher.update(chunk) before the two checks.
TapTransformHashFirst(t, chunk, previewMax, verdict) ==
    [written |-> t.written + Len(chunk),
     hash |-> HashUpdate(t.hash, chunk),
     preview |-> IF verdict = "ok" THEN PreviewPush(t.preview, chunk, previewMax)
                 ELSE t.preview]

\* The tap's state after transform(chunk): `written` grows before the checks.
TapTransform(t, chunk, previewMax, verdict) ==
    IF verdict = "ok"
    THEN [written |-> t.written + Len(chunk),
          hash |-> HashUpdate(t.hash, chunk),
          preview |-> PreviewPush(t.preview, chunk, previewMax)]
    ELSE [t EXCEPT !.written = t.written + Len(chunk)]

\* The request stream delivers one chunk to the tap.
Receive(p, chunk) ==
    /\ pc[p] = "stream"
    /\ Len(sent[p]) + Len(chunk) <= total[p]
    /\ sent' = [sent EXCEPT ![p] = @ \o chunk]
    /\ LET v == TapVerdict(tap[p], chunk, maxBody, clen[p])
       IN /\ tap' = [tap EXCEPT ![p] = TapTransform(@, chunk, previewLimit, v)]
          /\ IF v = "ok"
             THEN /\ pend' = [pend EXCEPT ![p] = @ \o chunk]
                  /\ UNCHANGED <<pc, err>>
             ELSE /\ err' = [err EXCEPT ![p] = v]
                  /\ pc' = [pc EXCEPT ![p] = "wfail"]
                  /\ pend' = pend
    /\ UNCHANGED <<cfgVars, clock, fs, clen, hdr, id, ret, resp, total, rd>>

\* The write stream writes what the tap forwarded into the temp file.
FlushBody(p) ==
    /\ pc[p] \in {"stream", "ending"}
    /\ pend[p] # <<>>
    /\ fs' = IF Exists(fs, TmpBodyPath(id[p]))
             THEN [fs EXCEPT ![TmpBodyPath(id[p])] = BytesFile(@.bytes \o pend[p])]
             ELSE fs
    /\ pend' = [pend EXCEPT ![p] = <<>>]
    /\ UNCHANGED <<cfgVars, clock, pc, clen, hdr, id, tap, err, ret, resp, total, sent, rd>>

\* The request stream ends: the client has sent the whole payload.
EndBody(p) ==
    /\ pc[p] = "stream"
    /\ Len(sent[p]) = total[p]
    /\ pc' = [pc EXCEPT ![p] = "ending"]
    /\ UNCHANGED <<cfgVars, clock, fs, clen, hdr, id, tap, pend, err, ret, resp, total, sent, rd>>

\* The client disconnects before the payload is complete: the request
\* stream errors.
AbortBody(p) ==
    /\ pc[p] = "stream"
    /\ Len(sent[p]) < total[p]
    /\ err' = [err EXCEPT ![p] = "ABORTED"]
    /\ pc' = [pc EXCEPT ![p] = "wfail"]
    /\ UNCHANGED <<cfgVars, clock, fs, clen, hdr, id, tap, pend, resp, ret, total, sent, rd>>

\* ------------------------------------------- handlePostWebhook, 88..121
\* Mutant: the catch block answers without unlinking the temp file.
FailBodyNoUnlink(p) ==
    /\ pc[p] = "wfail"
    /\ IF err[p] = "PAYLOAD_TOO_LARGE" THEN Finish(p, 413, "payload too large")
       ELSE Finish(p, 400, "incomplete body")
    /\ UNCHANGED <<cfgVars, clock, fs, clen, hdr, id, tap, pend, err, ret, total, sent, rd>>

\* catch (err): unlink the temp file, answer 413 or 400.
FailBody(p) ==
    /\ pc[p] = "wfail"
    /\ fs' = Unlink(fs, TmpBodyPath(id[p]))
    /\ IF err[p] = "PAYLOAD_TOO_LARGE" THEN Finish(p, 413, "payload too large")
       ELSE Finish(p, 400, "incomplete body")
    /\ UNCHANGED <<cfgVars, clock, clen, hdr, id, tap, pend, err, ret, total, sent, rd>>

\* Mutant: the pipeline resolves when the source ends, with bytes still to write.
DrainedEarly(p) == pc[p] = "ending"

\* The pipeline resolved: the source ended and every forwarded byte is written.
Drained(p) == pc[p] = "ending" /\ pend[p] = <<>>

\* Mutant: 'empty body' is answered and the handler does not return.
EmptyBodyNoReturn(p) ==
    /\ Drained(p)
    /\ tap[p].written <= 0
    /\ fs' = Unlink(fs, TmpBodyPath(id[p]))
    /\ resp' = [resp EXCEPT ![p] = Response(400, "empty body")]
    /\ UNCHANGED <<cfgVars, clock, pc, clen, hdr, id, tap, pend, err, ret, total, sent, rd>>

\* Lines 103..111: nothing was received.
EmptyBody(p) ==
    /\ Drained(p)
    /\ tap[p].written <= 0
    /\ fs' = Unlink(fs, TmpBodyPath(id[p]))
    /\ Finish(p, 400, "empty body")
    /\ UNCHANGED <<cfgVars, clock, clen, hdr, id, tap, pend, err, ret, total, sent, rd>>

\* Mutant: the `written !== expectedLength` check is missing.
LengthMismatchPublish(p) ==
    /\ pc[p] = "ending" /\ pend[p] = <<>>
    /\ tap[p].written > 0
    /\ clen[p] # NoLength /\ tap[p].written # clen[p]
    /\ fs' = Rename(fs, TmpBodyPath(id[p]), BodyName(id[p]))
    /\ pc' = [pc EXCEPT ![p] = "renamed"]
    /\ UNCHANGED <<cfgVars, clock, clen, hdr, id, tap, pend, err, ret, resp, total, sent, rd>>

LengthMismatch(p) ==
    /\ Drained(p)
    /\ tap[p].written > 0
    /\ clen[p] # NoLength /\ tap[p].written # clen[p]
    /\ fs' = Unlink(fs, TmpBodyPath(id[p]))
    /\ Finish(p, 400, "incomplete body")
    /\ UNCHANGED <<cfgVars, clock, clen, hdr, id, tap, pend, err, ret, total, sent, rd>>

\* ------------------------------------------ handlePostWebhook, 123..165
\* Mutant: a preview that is not the whole body is not decoded.
BuildRecordWholeOnly(bodyName, contentType, writeResult) ==
    LET decoded == IF writeResult.written > Len(writeResult.preview)
                   THEN Decode(contentType, <<>>)
                   ELSE Decode(contentType, writeResult.preview)
    IN [content_type |-> contentType,
        body_file |-> NameText(bodyName),
        body_size |-> writeResult.written,
        body_sha256 |-> writeResult.hash,
        preview_truncated |-> writeResult.written > Len(writeResult.preview),
        body_json |-> decoded.body_json,
        body_text |-> decoded.body_text,
        body_b64 |-> decoded.body_b64]

\* The record document of lines 145..158 (the fields the store reads back).
BuildRecord(bodyName, contentType, writeResult) ==
    LET decoded == Decode(contentType, writeResult.preview)
    IN [content_type |-> contentType,
        body_file |-> NameText(bodyName),
        body_size |-> writeResult.written,
        body_sha256 |-> writeResult.hash,
        preview_truncated |-> writeResult.written > Len(writeResult.preview),
        body_json |-> decoded.body_json,
        body_text |-> decoded.body_text,
        body_b64 |-> decoded.body_b64]

\* await fs.promises.rename(tmpBodyPath, bodyPath); a missing temp file throws,
\* and createServer's catch answers 500.
RenameBody(p) ==
    /\ Drained(p)
    /\ tap[p].written > 0
    /\ clen[p] = NoLength \/ tap[p].written = clen[p]
    /\ IF Exists(fs, TmpBodyPath(id[p]))
       THEN /\ fs' = Rename(fs, TmpBodyPath(id[p]), BodyName(id[p]))
            /\ pc' = [pc EXCEPT ![p] = "renamed"]
            /\ resp' = resp
       ELSE /\ fs' = fs
            /\ Finish(p, 500, "internal server error")
    /\ UNCHANGED <<cfgVars, clock, clen, hdr, id, tap, pend, err, ret, total, sent, rd>>

\* Mutant: the record document is written once the pipeline has resolved,
\* the blob still at its temp path.
WriteRecordOpenEarly(p) ==
    /\ Drained(p) \/ pc[p] = "renamed"
    /\ fs' = WriteFile(fs, TmpRecordPath(id[p]),
                       JsonFile(BuildRecord(BodyName(id[p]), ContentType(hdr[p].ctype), tap[p]), FALSE))
    /\ pc' = [pc EXCEPT ![p] = "recopen"]
    /\ UNCHANGED <<cfgVars, clock, clen, hdr, id, tap, pend, err, ret, resp, total, sent, rd>>

\* fs.promises.writeFile(tmpRecordPath, ...) opens the file (flag 'w') ...
WriteRecordOpen(p) ==
    /\ pc[p] = "renamed"
    /\ fs' = WriteFile(fs, TmpRecordPath(id[p]),
                       JsonFile(BuildRecord(BodyName(id[p]), ContentType(hdr[p].ctype), tap[p]), FALSE))
    /\ pc' = [pc EXCEPT ![p] = "recopen"]
    /\ UNCHANGED <<cfgVars, clock, clen, hdr, id, tap, pend, err, ret, resp, total, sent, rd>>

\* ... and then writes the whole document into it.
WriteRecordData(p) ==
    /\ pc[p] = "recopen"
    /\ fs' = WriteFile(fs, TmpRecordPath(id[p]),
                       JsonFile(BuildRecord(BodyName(id[p]), ContentType(hdr[p].ctype), tap[p]), TRUE))
    /\ pc' = [pc EXCEPT ![p] = "recwritten"]
    /\ UNCHANGED <<cfgVars, clock, clen, hdr, id, tap, pend, err, ret, resp, total, sent, rd>>

\* Mutant: the put answers after the rename, enforceRetention is not called.
RenameRecordNoRetention(p) ==
    /\ pc[p] = "recwritten"
    /\ IF Exists(fs, TmpRecordPath(id[p]))
       THEN /\ fs' = Rename(fs, TmpRecordPath(id[p]), RecordName(id[p]))
            /\ Finish(p, 200, "ok")
       ELSE /\ fs' = fs
            /\ Finish(p, 500, "internal server error")
    /\ UNCHANGED <<cfgVars, clock, clen, hdr, id, tap, pend, err, ret, total, sent, rd>>

\* Mutant: `keep < 0` for `keep <= 0`.
RenameRecordKeepZero(p) ==
    /\ pc[p] = "recwritten"
    /\ IF Exists(fs, TmpRecordPath(id[p]))
       THEN /\ fs' = Rename(fs, TmpRecordPath(id[p]), RecordName(id[p]))
            /\ IF maxRecords < 0 THEN Finish(p, 200, "ok")
               ELSE /\ pc' = [pc EXCEPT ![p] = "readdir"]
                    /\ resp' = resp
       ELSE /\ fs' = fs
            /\ Finish(p, 500, "internal server error")
    /\ UNCHANGED <<cfgVars, clock, clen, hdr, id, tap, pend, err, ret, total, sent, rd>>

\* await fs.promises.rename(tmpRecordPath, recordPath), then enforceRetention
\* starts: `if (keep <= 0) return` answers at once, else readdir is awaited.
RenameRecord(p) ==
    /\ pc[p] = "recwritten"
    /\ IF Exists(fs, TmpRecordPath(id[p]))
       THEN /\ fs' = Rename(fs, TmpRecordPath(id[p]), RecordName(id[p]))
            /\ IF maxRecords <= 0 THEN Finish(p, 200, "ok")
               ELSE /\ pc' = [pc EXCEPT ![p] = "readdir"]
                    /\ resp' = resp
       ELSE /\ fs' = fs
            /\ Finish(p, 500, "internal server error")
    /\ UNCHANGED <<cfgVars, clock, clen, hdr, id, tap, pend, err, ret, total, sent, rd>>

\* ------------------------------------------------- enforceRetention, 12..50
\* One filesystem call of enforceRetention, for ret[p].log: the call, the file
\* it was made on, whether it succeeded, and the body reference a read gave.
Called(op, name, ok, ref) == [op |-> op, name |-> name, ok |-> ok, ref |-> ref]

\* The log with one more call, when the calls are observed.
Logged(log, call) == IF audit THEN Append(log, call) ELSE log

\* The loop moves to the next stale record; after the last one the function
\* returns and the handler answers 200.
NextStale(p, log) ==
    IF Len(ret[p].stale) <= 1
    THEN /\ ret' = [ret EXCEPT ![p] = [NoRet EXCEPT !.log = log]]
         /\ Finish(p, 200, "ok")
    ELSE /\ ret' = [ret EXCEPT ![p] = [stale |-> Tail(@.stale), bodyName |-> <<>>,
                                       log |-> log]]
         /\ pc' = [pc EXCEPT ![p] = "ret_read"]
         /\ resp' = resp

\* readdir, filter, sort, reverse, slice(keep).
RetentionList(p) ==
    /\ pc[p] = "readdir"
    /\ LET stale == Stale(fs, maxRecords)
           log == Logged(<<>>, Called("readdir", NoName, TRUE, <<>>))
       IN IF stale = <<>>
          THEN /\ Finish(p, 200, "ok")
               /\ ret' = [ret EXCEPT ![p].log = log]
          ELSE /\ ret' = [ret EXCEPT ![p] = [stale |-> stale, bodyName |-> <<>>,
                                             log |-> log]]
               /\ pc' = [pc EXCEPT ![p] = "ret_read"]
               /\ resp' = resp
    /\ UNCHANGED <<cfgVars, clock, fs, clen, hdr, id, tap, pend, err, total, sent, rd>>

\* Mutant: the blob of a document that cannot be read is guessed from the
\* document's name.
RetentionReadGuess(p) ==
    /\ pc[p] = "ret_read"
    /\ LET name == Head(ret[p].stale)
           ref == IF Parses(fs, name) THEN Trim(fs[name].doc.body_file)
                  ELSE NameText(BodyName(name.id))
       IN ret' = [ret EXCEPT ![p].bodyName = ref,
                             ![p].log = Logged(@, Called("read", name, Parses(fs, name), ref))]
    /\ pc' = [pc EXCEPT ![p] = "ret_unlink"]
    /\ UNCHANGED <<cfgVars, clock, fs, clen, hdr, id, tap, pend, err, resp, total, sent, rd>>

\* bodyName = String(record.body_file || '').trim(), '' when the read or the
\* parse throws.
RetentionRead(p) ==
    /\ pc[p] = "ret_read"
    /\ LET name == Head(ret[p].stale)
           ref == IF Parses(fs, name) THEN Trim(fs[name].doc.body_file) ELSE <<>>
       IN ret' = [ret EXCEPT ![p].bodyName = ref,
                             ![p].log = Logged(@, Called("read", name, Parses(fs, name), ref))]
    /\ pc' = [pc EXCEPT ![p] = "ret_unlink"]
    /\ UNCHANGED <<cfgVars, clock, fs, clen, hdr, id, tap, pend, err, resp, total, sent, rd>>

\* Mutant: only the empty reference is refused.
UnsafeRefEmptyOnly(bodyName) == bodyName = <<>>

\* A body reference the code refuses to follow: empty, or with '..', '/', '\'.
UnsafeRef(bodyName) ==
    \/ bodyName = <<>>
    \/ IncludesDotDot(bodyName)
    \/ Includes(bodyName, "/")
    \/ Includes(bodyName, "\\")

\* Mutant: the stale record document is not unlinked.
RetentionUnlinkRecordKept(p) ==
    /\ pc[p] = "ret_unlink"
    /\ fs' = fs
    /\ IF UnsafeRef(ret[p].bodyName)
       THEN NextStale(p, ret[p].log)
       ELSE /\ pc' = [pc EXCEPT ![p] = "ret_unlink_body"]
            /\ UNCHANGED <<ret, resp>>
    /\ UNCHANGED <<cfgVars, clock, clen, hdr, id, tap, pend, err, total, sent, rd>>

\* unlink(recordPath), errors ignored; no usable body reference: continue.
RetentionUnlinkRecord(p) ==
    /\ pc[p] = "ret_unlink"
    /\ fs' = Unlink(fs, Head(ret[p].stale))
    /\ LET name == Head(ret[p].stale)
           log == Logged(ret[p].log, Called("unlink", name, Exists(fs, name), <<>>))
       IN IF UnsafeRef(ret[p].bodyName)
          THEN NextStale(p, log)
          ELSE /\ pc' = [pc EXCEPT ![p] = "ret_unlink_body"]
               /\ ret' = [ret EXCEPT ![p].log = log]
               /\ resp' = resp
    /\ UNCHANGED <<cfgVars, clock, clen, hdr, id, tap, pend, err, total, sent, rd>>

\* Mutant: the blob of a deleted record is left in the directory.
RetentionUnlinkBodyKept(p) ==
    /\ pc[p] = "ret_unlink_body"
    /\ fs' = fs
    /\ LET name == PathJoin(ret[p].bodyName)
       IN NextStale(p, Logged(ret[p].log, Called("unlink", name, Exists(fs, name), <<>>)))
    /\ UNCHANGED <<cfgVars, clock, clen, hdr, id, tap, pend, err, total, sent, rd>>

\* unlink(bodyPath), errors ignored.
RetentionUnlinkBody(p) ==
    /\ pc[p] = "ret_unlink_body"
    /\ fs' = Unlink(fs, PathJoin(ret[p].bodyName))
    /\ LET name == PathJoin(ret[p].bodyName)
       IN NextStale(p, Logged(ret[p].log, Called("unlink", name, Exists(fs, name), <<>>)))
    /\ UNCHANGED <<cfgVars, clock, clen, hdr, id, tap, pend, err, total, sent, rd>>

\* ------------------------------------- enforceRetention, calls that fail
\* Mutant: a listing that fails is thrown to the handler.
RetentionListThrows(p) ==
    /\ pc[p] = "readdir"
    /\ ret' = [ret EXCEPT ![p].log = Logged(<<>>, Called("readdir", NoName, FALSE, <<>>))]
    /\ Finish(p, 500, "internal server error")
    /\ UNCHANGED <<cfgVars, clock, fs, clen, hdr, id, tap, pend, err, total, sent, rd>>

\* readdir throws (16..21): enforceRetention returns, the handler answers 200.
RetentionListFails(p) ==
    /\ pc[p] = "readdir"
    /\ ret' = [ret EXCEPT ![p].log = Logged(<<>>, Called("readdir", NoName, FALSE, <<>>))]
    /\ Finish(p, 200, "ok")
    /\ UNCHANGED <<cfgVars, clock, fs, clen, hdr, id, tap, pend, err, total, sent, rd>>

\* readFile throws (EIO, EMFILE ...) on a document that is there: bodyName = ''.
RetentionReadFails(p) ==
    /\ pc[p] = "ret_read"
    /\ Exists(fs, Head(ret[p].stale))
    /\ ret' = [ret EXCEPT ![p].bodyName = <<>>,
                          ![p].log = Logged(@, Called("read", Head(ret[p].stale), FALSE, <<>>))]
    /\ pc' = [pc EXCEPT ![p] = "ret_unlink"]
    /\ UNCHANGED <<cfgVars, clock, fs, clen, hdr, id, tap, pend, err, resp, total, sent, rd>>

\* Mutant: a document that cannot be unlinked ends the turn of the loop.
RetentionUnlinkRecordFailsSkips(p) ==
    /\ pc[p] = "ret_unlink"
    /\ Exists(fs, Head(ret[p].stale))
    /\ fs' = fs
    /\ NextStale(p, Logged(ret[p].log, Called("unlink", Head(ret[p].stale), FALSE, <<>>)))
    /\ UNCHANGED <<cfgVars, clock, clen, hdr, id, tap, pend, err, total, sent, rd>>

\* unlink(recordPath) throws (EPERM, EBUSY, EIO ...) on a document that is
\* there: ignored (35..39), the loop goes on to the blob.
RetentionUnlinkRecordFails(p) ==
    /\ pc[p] = "ret_unlink"
    /\ Exists(fs, Head(ret[p].stale))
    /\ fs' = fs
    /\ LET log == Logged(ret[p].log, Called("unlink", Head(ret[p].stale), FALSE, <<>>))
       IN IF UnsafeRef(ret[p].bodyName)
          THEN NextStale(p, log)
          ELSE /\ pc' = [pc EXCEPT ![p] = "ret_unlink_body"]
               /\ ret' = [ret EXCEPT ![p].log = log]
               /\ resp' = resp
    /\ UNCHANGED <<cfgVars, clock, clen, hdr, id, tap, pend, err, total, sent, rd>>

\* unlink(bodyPath) throws on a blob that is there: ignored (44..48).
RetentionUnlinkBodyFails(p) ==
    /\ pc[p] = "ret_unlink_body"
    /\ Exists(fs, PathJoin(ret[p].bodyName))
    /\ fs' = fs
    /\ NextStale(p, Logged(ret[p].log,
                           Called("unlink", PathJoin(ret[p].bodyName), FALSE, <<>>)))
    /\ UNCHANGED <<cfgVars, clock, clen, hdr, id, tap, pend, err, total, sent, rd>>

\* ------------------------------------------------------------ chunk sets
RECURSIVE SeqsUpTo(_, _)
SeqsUpTo(S, n) ==
    IF n = 0 THEN {<<>>}
    ELSE LET shorter == SeqsUpTo(S, n - 1)
         IN shorter \cup {Append(s, x) : s \in {t \in shorter : Len(t) = n - 1}, x \in S}

Chunks == SeqsUpTo(Bytes, MaxChunk) \ {<<>>}

\* -------------------------------------------------------------- SpecStream
\* One request on an empty store, with every payload, chunking, declared
\* length and limit within the bounds.
InitStream ==
    /\ InitRequests
    /\ token = Secret
    /\ audit = FALSE
    /\ maxBody \in 1..MaxBody
    /\ previewLimit \in 0..MaxPreview
    /\ maxRecords = 1

NextStream ==
    \/ \E cl \in Headers : RejectHeader(1, Plain, cl)
    \/ \E cl \in Headers, n \in 0..MaxSent : Accept(1, Plain, cl, <<0, 0>>, n)
    \/ OpenBody(1)
    \/ \E chunk \in Chunks : Receive(1, chunk)
    \/ FlushBody(1)
    \/ EndBody(1)
    \/ AbortBody(1)
    \/ FailBody(1)
    \/ EmptyBody(1)
    \/ LengthMismatch(1)
    \/ RenameBody(1)
    \/ WriteRecordOpen(1)
    \/ WriteRecordData(1)
    \/ RenameRecord(1)
    \/ RetentionList(1)

SpecStream == InitStream /\ [][NextStream]_vars

\* ------------------------------------------------- handleGetIndex, 185..228
\* The reader is between two requests.
ReaderIdle == rd.pc \in {"idle", "listed", "got"}

\* readdir, filter, sort, reverse, slice(0, 50).
ListReaddir ==
    /\ ReaderIdle
    /\ LET files == Take(SortDesc(JsonNames(fs)), ListLimit)
       IN rd' = [NoRd EXCEPT !.pc = IF files = <<>> THEN "listed" ELSE "list_read",
                             !.todo = files,
                             !.code = IF files = <<>> THEN 200 ELSE 0]
    /\ UNCHANGED <<cfgVars, clock, fs, pc, clen, hdr, id, tap, pend, err, ret, resp, total, sent>>

\* One turn of the loop: read and parse the file, push {name, ...} whether or
\* not that worked; after the last file the page is sent.
ListRead ==
    /\ rd.pc = "list_read"
    /\ LET name == Head(rd.todo)
           entry == [name |-> name, parsed |-> Parses(fs, name)]
       IN rd' = [rd EXCEPT !.todo = Tail(@),
                           !.out = Append(@, entry),
                           !.pc = IF Len(rd.todo) = 1 THEN "listed" ELSE "list_read",
                           !.code = IF Len(rd.todo) = 1 THEN 200 ELSE 0]
    /\ UNCHANGED <<cfgVars, clock, fs, pc, clen, hdr, id, tap, pend, err, ret, resp, total, sent>>

\* ------------------------------- handleGetView, handleGetRaw, 230..314
\* invalidId(name): empty, or with '..', '/' or '\'.
\* Mutant: the backslash test is missing.
InvalidIdNoBackslash(name) ==
    LET s == Trim(name)
    IN \/ s = <<>>
       \/ IncludesDotDot(s)
       \/ Includes(s, "/")

InvalidId(name) ==
    LET s == Trim(name)
    IN \/ s = <<>>
       \/ IncludesDotDot(s)
       \/ Includes(s, "/") \/ Includes(s, "\\")

\* name = String(searchParams.get('id') || '').trim(), the id check, then
\* access(recordPath, R_OK).
GetAccess(query, raw) ==
    /\ ReaderIdle
    /\ LET asked == [NoRd EXCEPT !.query = query, !.raw = raw]
           name == PathJoin(Trim(query))
       IN rd' = IF InvalidId(query) THEN [asked EXCEPT !.pc = "got", !.code = 400]
                ELSE IF ~Exists(fs, name) THEN [asked EXCEPT !.pc = "got", !.code = 404]
                ELSE [asked EXCEPT !.pc = "get_read", !.name = name]
    /\ UNCHANGED <<cfgVars, clock, fs, pc, clen, hdr, id, tap, pend, err, ret, resp, total, sent>>

\* JSON.parse(readFile(recordPath)): 500 when it throws; the view answers with
\* the record, the raw download goes on to the body reference.
GetRead ==
    /\ rd.pc = "get_read"
    /\ rd' = IF ~Parses(fs, rd.name) THEN [rd EXCEPT !.pc = "got", !.code = 500]
             ELSE IF ~rd.raw THEN [rd EXCEPT !.pc = "got", !.code = 200, !.doc = fs[rd.name].doc]
             ELSE IF UnsafeRef(Trim(fs[rd.name].doc.body_file))
                  THEN [rd EXCEPT !.pc = "got", !.code = 404, !.doc = fs[rd.name].doc]
             ELSE [rd EXCEPT !.pc = "raw_access", !.doc = fs[rd.name].doc]
    /\ UNCHANGED <<cfgVars, clock, fs, pc, clen, hdr, id, tap, pend, err, ret, resp, total, sent>>

\* access(bodyPath, R_OK): 404 'no body' when it fails.
RawAccess ==
    /\ rd.pc = "raw_access"
    /\ rd' = IF Exists(fs, PathJoin(Trim(rd.doc.body_file)))
             THEN [rd EXCEPT !.pc = "raw_open"]
             ELSE [rd EXCEPT !.pc = "got", !.code = 404]
    /\ UNCHANGED <<cfgVars, clock, fs, pc, clen, hdr, id, tap, pend, err, ret, resp, total, sent>>

\* stat, the 200 header, createReadStream(bodyPath).pipe(res): the open file
\* is streamed whole; a file gone by now makes the stream fail after the
\* status line.
RawOpen ==
    /\ rd.pc = "raw_open"
    /\ rd' = IF Exists(fs, PathJoin(Trim(rd.doc.body_file)))
             THEN [rd EXCEPT !.pc = "got", !.code = 200, !.streamed = TRUE,
                             !.bytes = fs[PathJoin(Trim(rd.doc.body_file))].bytes]
             ELSE [rd EXCEPT !.pc = "got", !.code = 200]
    /\ UNCHANGED <<cfgVars, clock, fs, pc, clen, hdr, id, tap, pend, err, ret, resp, total, sent>>

\* -------------------------------------------------------------------- Spec
\* Concurrent ingests with distinct ids, their retention runs and a reader,
\* on a store that starts empty.  Bodies are one chunk of one byte; a client
\* may disconnect before sending it.  The requests arrive within one clock
\* second and are numbered by their random suffixes: Accept touches nothing
\* another request reads, so every order in which the named files are
\* written, published, listed and deleted is still reached.
StoreChunk == <<0>>

SameSecond(p) == <<0, p - 1>>

GetNames == {RecordName(SameSecond(p)) : p \in ConcReqs}

Init ==
    /\ InitRequests
    /\ token = Secret
    /\ audit = FALSE
    /\ maxBody = 1
    /\ previewLimit = 1
    /\ maxRecords \in 1..MaxKeep

Ingest(p) ==
    \/ Fresh(SameSecond(p)) /\ Accept(p, Plain, NoLength, SameSecond(p), 1)
    \/ OpenBody(p)
    \/ Receive(p, StoreChunk)
    \/ FlushBody(p)
    \/ EndBody(p)
    \/ AbortBody(p)
    \/ FailBody(p)
    \/ RenameBody(p)
    \/ WriteRecordOpen(p)
    \/ WriteRecordData(p)
    \/ RenameRecord(p)

Retention(p) ==
    \/ RetentionList(p)
    \/ RetentionRead(p)
    \/ RetentionUnlinkRecord(p)
    \/ RetentionUnlinkBody(p)

Reader ==
    \/ ListReaddir
    \/ ListRead
    \/ \E name \in GetNames, raw \in BOOLEAN : GetAccess(NameText(name), raw)
    \/ GetRead
    \/ RawAccess
    \/ RawOpen

Next ==
    \/ \E p \in ConcReqs : Ingest(p)
    \/ \E p \in ConcReqs : Retention(p)
    \/ Reader

Spec == Init /\ [][Next]_vars

\* ----------------------------------------------------------------- SpecSeq
\* Puts run one after another on a store that starts empty: a request is
\* accepted only when no other is in flight.  The clock never goes back, and
\* ids are distinct.
Quiet == \A q \in Reqs : ~Active(q)

InitSeq ==
    /\ InitRequests
    /\ token = Secret
    /\ audit = FALSE
    /\ maxBody = 1
    /\ previewLimit = 1
    /\ maxRecords \in 1..MaxKeep

SeqIngest(p) ==
    \/ \E i \in Idents : Quiet /\ Fresh(i) /\ Accept(p, Plain, NoLength, i, 1)
    \/ OpenBody(p)
    \/ Receive(p, StoreChunk)
    \/ FlushBody(p)
    \/ EndBody(p)
    \/ AbortBody(p)
    \/ FailBody(p)
    \/ RenameBody(p)
    \/ WriteRecordOpen(p)
    \/ WriteRecordData(p)
    \/ RenameRecord(p)

NextSeq ==
    \/ \E p \in Reqs : SeqIngest(p)
    \/ \E p \in Reqs : Retention(p)

SpecSeq == InitSeq /\ [][NextSeq]_vars

\* Mutant: rename(tmpRecordPath, recordPath) throws after the file was moved.
RenameRecordFailsLate(p) ==
    /\ pc[p] = "recwritten"
    /\ fs' = Rename(fs, TmpRecordPath(id[p]), RecordName(id[p]))
    /\ Finish(p, 500, "internal server error")
    /\ UNCHANGED <<cfgVars, clock, clen, hdr, id, tap, pend, err, ret, total, sent, rd>>

\* rename(tmpRecordPath, recordPath) throws.
RenameRecordFails(p) ==
    /\ pc[p] = "recwritten"
    /\ Finish(p, 500, "internal server error")
    /\ UNCHANGED <<cfgVars, clock, fs, clen, hdr, id, tap, pend, err, ret, total, sent, rd>>

\* ------------------------------------------------------------- SpecCollide
\* Concurrent ingests whose ids may collide: randomBytes(6) may give a
\* request the suffix of an earlier request of the same second whose record
\* is published or whose handler is still in flight.  Each request sends its
\* own byte, so the content of a file tells who wrote it.  The rename of the
\* record document may throw.
PayloadOf(p) == <<(p - 1) % (MaxByte + 1)>>

Collides(i) == \E q \in Reqs : id[q] = i /\ (Active(q) \/ Exists(fs, RecordName(i)))

InitCollide ==
    /\ InitRequests
    /\ token = Secret
    /\ audit = FALSE
    /\ maxBody = 1
    /\ previewLimit = 1
    /\ maxRecords \in 1..MaxKeep

CollideIngest(p) ==
    \/ \E q \in 1..p : /\ Fresh(SameSecond(q)) \/ Collides(SameSecond(q))
                       /\ Accept(p, Plain, NoLength, SameSecond(q), 1)
    \/ OpenBody(p)
    \/ Receive(p, PayloadOf(p))
    \/ FlushBody(p)
    \/ EndBody(p)
    \/ AbortBody(p)
    \/ FailBody(p)
    \/ RenameBody(p)
    \/ WriteRecordOpen(p)
    \/ WriteRecordData(p)
    \/ RenameRecord(p)

NextCollide ==
    \/ \E p \in ConcReqs : CollideIngest(p)
    \/ \E p \in ConcReqs : RenameRecordFails(p)
    \/ \E p \in ConcReqs : Retention(p)

SpecCollide == InitCollide /\ [][NextCollide]_vars

\* --------------------------------------------------------------- SpecFault
\* Concurrent ingests with distinct ids on a filesystem whose calls may fail
\* (EIO, ENOSPC, EACCES ...).  A failure inside writeBodyToFile rejects the
\* pipeline and is caught by handlePostWebhook (88..101); a failure of
\* rename or writeFile is thrown out of the handler and caught by
\* createServer (384..388), which answers 500; a failure inside
\* enforceRetention is ignored there (see the calls that fail, above).
\* createWriteStream cannot open the temp file: nothing is created.
OpenBodyFails(p) ==
    /\ pc[p] = "open"
    /\ err' = [err EXCEPT ![p] = "EIO"]
    /\ pc' = [pc EXCEPT ![p] = "wfail"]
    /\ UNCHANGED <<cfgVars, clock, fs, clen, hdr, id, tap, pend, ret, resp, total, sent, rd>>

\* A write to the temp file fails: the bytes pending are lost.
WriteBodyFails(p) ==
    /\ pc[p] \in {"stream", "ending"}
    /\ pend[p] # <<>>
    /\ pend' = [pend EXCEPT ![p] = <<>>]
    /\ err' = [err EXCEPT ![p] = "EIO"]
    /\ pc' = [pc EXCEPT ![p] = "wfail"]
    /\ UNCHANGED <<cfgVars, clock, fs, clen, hdr, id, tap, ret, resp, total, sent, rd>>

\* rename(tmpBodyPath, bodyPath) throws.
RenameBodyFails(p) ==
    /\ Drained(p)
    /\ tap[p].written > 0
    /\ clen[p] = NoLength \/ tap[p].written = clen[p]
    /\ Finish(p, 500, "internal server error")
    /\ UNCHANGED <<cfgVars, clock, fs, clen, hdr, id, tap, pend, err, ret, total, sent, rd>>

\* writeFile(tmpRecordPath) throws on open: no temp record is created.
WriteRecordOpenFails(p) ==
    /\ pc[p] = "renamed"
    /\ Finish(p, 500, "internal server error")
    /\ UNCHANGED <<cfgVars, clock, fs, clen, hdr, id, tap, pend, err, ret, total, sent, rd>>

\* writeFile(tmpRecordPath) throws on write: the temp record stays as it is.
WriteRecordDataFails(p) ==
    /\ pc[p] = "recopen"
    /\ Finish(p, 500, "internal server error")
    /\ UNCHANGED <<cfgVars, clock, fs, clen, hdr, id, tap, pend, err, ret, total, sent, rd>>

InitFault ==
    /\ InitRequests
    /\ token = Secret
    /\ audit = TRUE
    /\ maxBody = 1
    /\ previewLimit = 1
    /\ maxRecords \in 1..MaxKeep

FaultIngest(p) ==
    \/ Ingest(p)
    \/ OpenBodyFails(p)
    \/ WriteBodyFails(p)
    \/ RenameBodyFails(p)
    \/ WriteRecordOpenFails(p)
    \/ WriteRecordDataFails(p)
    \/ RenameRecordFails(p)

NextFault ==
    \/ \E p \in ConcReqs : FaultIngest(p)
    \/ \E p \in ConcReqs : Retention(p)
    \/ \E p \in ConcReqs : RetentionListFails(p)
    \/ \E p \in ConcReqs : RetentionReadFails(p)
    \/ \E p \in ConcReqs : RetentionUnlinkRecordFails(p)
    \/ \E p \in ConcReqs : RetentionUnlinkBodyFails(p)

SpecFault == InitFault /\ [][NextFault]_vars

\* ----------------------------------------------------------------- SpecGet
\* The reader alone, asking for every id text up to MaxIdLen characters, on a
\* store directory that also holds record documents the server did not write
\* (restored, edited or copied in by its operator): the checks of
\* handleGetRaw on body_file exist for such documents.
PlantedDoc(ref) ==
    [content_type |-> OctetStream, body_file |-> ref, body_size |-> 1,
     body_sha256 |-> Sha256(<<0>>), preview_truncated |-> FALSE,
     body_json |-> Null, body_text |-> Val(<<0>>), body_b64 |-> Null]

Good == <<0, 0>>          \* a record as the server writes it
Padded == <<0, 1>>        \* body_file with blanks around the blob's name
EmptyRef == <<0, 2>>      \* body_file: ""
Traversal == <<0, 3>>     \* body_file: "../" and a name
Dangling == <<0, 4>>      \* body_file names a blob that is gone
Corrupt == <<0, 5>>       \* a document that is not valid JSON

PlantedIds == {Good, Padded, EmptyRef, Traversal, Dangling, Corrupt}

GetDir ==
    LET f1 == WriteFile(NoFiles, BodyName(Good), BytesFile(<<0>>))
        f2 == WriteFile(f1, RecordName(Good),
                        JsonFile(PlantedDoc(NameText(BodyName(Good))), TRUE))
        f3 == WriteFile(f2, BodyName(Padded), BytesFile(<<0>>))
        f4 == WriteFile(f3, RecordName(Padded),
                        JsonFile(PlantedDoc(<<Ch(" ")>> \o NameText(BodyName(Padded))
                                            \o <<Ch(" ")>>), TRUE))
        f5 == WriteFile(f4, RecordName(EmptyRef), JsonFile(PlantedDoc(<<Ch(" ")>>), TRUE))
        f6 == WriteFile(f5, RecordName(Traversal),
                        JsonFile(PlantedDoc(<<Ch("."), Ch("."), Ch("/"), Ch("a")>>), TRUE))
        f7 == WriteFile(f6, RecordName(Dangling),
                        JsonFile(PlantedDoc(NameText(BodyName(Dangling))), TRUE))
        f8 == WriteFile(f7, RecordName(Corrupt),
                        JsonFile(PlantedDoc(NameText(BodyName(Corrupt))), FALSE))
    IN WriteFile(f8, Outside, BytesFile(<<1>>))

\* The characters of an id text: blanks, dots, separators, a letter, and the
\* file names of the directory.
Alphabet ==
    {Ch(c) : c \in {" ", ".", "/", "\\", "a"}}
        \cup {NameText(RecordName(i))[1] : i \in PlantedIds}
        \cup {NameText(BodyName(Good))[1]}

Queries == SeqsUpTo(Alphabet, MaxIdLen)

InitGet ==
    /\ InitIdle
    /\ fs = GetDir
    /\ token = Secret
    /\ audit = FALSE
    /\ maxBody = 1
    /\ previewLimit = 1
    /\ maxRecords = MaxKeep

\* One request per run: a handler keeps nothing from an earlier request and
\* the directory does not change, so a second request adds no behaviour.
NextGet ==
    \/ rd.pc = "idle" /\ \E query \in Queries, raw \in BOOLEAN : GetAccess(query, raw)
    \/ GetRead
    \/ RawAccess
    \/ RawOpen

SpecGet == InitGet /\ [][NextGet]_vars

\* ---------------------------------------------------------------- SpecList
\* handleGetIndex alone on a directory of n published records with their
\* blobs, n up to MaxDir (STOCKHOOK_MAX_RECORDS allows 100 by default), and
\* the temp files of an ingest that was interrupted.
ListDir(n) ==
    LET records == {RecordName(<<0, k>>) : k \in 1..n}
        others == {BodyName(<<0, k>>) : k \in 1..n}
                      \cup {TmpBodyPath(<<0, n + 1>>), TmpRecordPath(<<0, n + 1>>)}
    IN [name \in records \cup others |->
            IF name.ext = "json"
            THEN JsonFile(PlantedDoc(NameText(BodyName(name.id))), TRUE)
            ELSE IF name.ext = "json.tmp"
                 THEN JsonFile(PlantedDoc(NameText(BodyName(name.id))), FALSE)
            ELSE BytesFile(<<0>>)]

InitList ==
    /\ InitIdle
    /\ \E n \in 0..MaxDir : fs = ListDir(n)
    /\ token = Secret
    /\ audit = FALSE
    /\ maxBody = 1
    /\ previewLimit = 1
    /\ maxRecords = MaxDir

NextList ==
    \/ ListReaddir
    \/ ListRead

SpecList == InitList /\ [][NextList]_vars

\* -------------------------------------------------------------- SpecDecode
\* One put on an empty store with every content-type header below and every
\* payload, in any chunking, of an opening and a closing bracket, the digit
\* 1, a blank and the two bytes of U+00E9: previews that are JSON, text that
\* is not JSON, and byte sequences that are not UTF-8.
DecodeBytes == {91, 93, 49, 32, 195, 169}

DecodeChunks == SeqsUpTo(DecodeBytes, MaxChunk) \ {<<>>}

ContentTypes ==
    {<<>>,
     <<Ch("application/json")>>,
     <<Ch(" "), Ch("application/json"), Ch(";"), Ch(" "), Ch("charset=utf-8")>>,
     <<Ch("text/json")>>,
     <<Ch("text/plain")>>,
     <<Ch(";"), Ch("application/json")>>}

InitDecode ==
    /\ InitRequests
    /\ token = Secret
    /\ audit = FALSE
    /\ maxBody = MaxPreview + 1
    /\ previewLimit \in 0..MaxPreview
    /\ maxRecords = 1

NextDecode ==
    \/ \E raw \in ContentTypes, n \in 1..(MaxPreview + 1) :
           Accept(1, [Plain EXCEPT !.ctype = raw], NoLength, <<0, 0>>, n)
    \/ OpenBody(1)
    \/ \E chunk \in DecodeChunks : Receive(1, chunk)
    \/ FlushBody(1)
    \/ EndBody(1)
    \/ RenameBody(1)
    \/ WriteRecordOpen(1)
    \/ WriteRecordData(1)
    \/ RenameRecord(1)
    \/ RetentionList(1)

SpecDecode == InitDecode /\ [][NextDecode]_vars

\* --------------------------------------------------------------- SpecEvict
\* One put on a directory that holds more records than are kept, some of them
\* documents the server did not write (see SpecGet), with filesystem calls of
\* enforceRetention that may fail: every stale record is evicted with every
\* combination of a read, a document unlink and a blob unlink that work or
\* fail.
Recent == <<0, 6>>        \* a record as the server writes it, the newest there

Arriving == <<1, 0>>      \* the id of the put

EvictDir ==
    LET f1 == WriteFile(GetDir, BodyName(Corrupt), BytesFile(<<0>>))
        f2 == WriteFile(f1, BodyName(EmptyRef), BytesFile(<<0>>))
        f3 == WriteFile(f2, BodyName(Recent), BytesFile(<<0>>))
    IN WriteFile(f3, RecordName(Recent),
                 JsonFile(PlantedDoc(NameText(BodyName(Recent))), TRUE))

InitEvict ==
    /\ InitIdle
    /\ fs = EvictDir
    /\ token = Secret
    /\ audit = TRUE
    /\ maxBody = 1
    /\ previewLimit = 1
    /\ maxRecords \in 1..MaxKeep

NextEvict ==
    \/ Accept(1, Plain, NoLength, Arriving, 1)
    \/ OpenBody(1)
    \/ Receive(1, StoreChunk)
    \/ FlushBody(1)
    \/ EndBody(1)
    \/ RenameBody(1)
    \/ WriteRecordOpen(1)
    \/ WriteRecordData(1)
    \/ RenameRecord(1)
    \/ Retention(1)
    \/ RetentionListFails(1)
    \/ RetentionReadFails(1)
    \/ RetentionUnlinkRecordFails(1)
    \/ RetentionUnlinkBodyFails(1)

SpecEvict == InitEvict /\ [][NextEvict]_vars

\* ----------------------------------------------------------------- SpecPut
\* Up to three puts one after another within one clock second, with
\* retention on (MaxKeep records kept) or off (0 and -1), and a list taken
\* after them.  A put sends a payload of zeros of any size up to one byte
\* more than the limit, with no content-length header, the right one or a
\* wrong one, whole or cut by the client; the run goes on to the list once a
\* put has failed.
ZeroChunks == {[k \in 1..n |-> 0] : n \in 1..MaxChunk}

SecondIds == {<<0, k>> : k \in 0..(MaxIdent + 1)}

NoneFailed == \A q \in Reqs : err[q] = None /\ resp[q].code \in {0, 200}

InitPut ==
    /\ InitRequests
    /\ token = Secret
    /\ audit = TRUE
    /\ maxBody = MaxBody - 1
    /\ previewLimit = 1
    /\ maxRecords \in {-1, 0, MaxKeep}

PutIngest(p) ==
    \/ /\ Arrives(p) /\ Quiet /\ NoneFailed
       /\ \E cl \in Headers : RejectHeader(p, Plain, cl)
    \/ /\ Arrives(p) /\ Quiet /\ NoneFailed
       /\ \E n \in 0..MaxBody, i \in SecondIds :
              /\ Fresh(i)
              /\ \E cl \in {NoLength, n - 1, n, n + 1} : Accept(p, Plain, cl, i, n)
    \/ OpenBody(p)
    \/ \E chunk \in ZeroChunks : Receive(p, chunk)
    \/ FlushBody(p)
    \/ EndBody(p)
    \/ AbortBody(p)
    \/ FailBody(p)
    \/ EmptyBody(p)
    \/ LengthMismatch(p)
    \/ RenameBody(p)
    \/ WriteRecordOpen(p)
    \/ WriteRecordData(p)
    \/ RenameRecord(p)

NextPut ==
    \/ \E p \in 1..3 : PutIngest(p)
    \/ \E p \in 1..3 : Retention(p)
    \/ Quiet /\ (pc[3] = "done" \/ ~NoneFailed) /\ rd.pc = "idle" /\ ListReaddir
    \/ ListRead

SpecPut == InitPut /\ [][NextPut]_vars

\* ---------------------------------------------------------------- SpecAuth
\* Two puts one after another, each with any of the tokens below in its
\* x-stockhook-token header, its authorization header and its query, on a
\* server whose STOCKHOOK_TOKEN is unset, blank, or a token with or without a
\* blank after it.
OtherSecret == <<Ch("b")>>

TokenTexts == {<<>>, Secret, OtherSecret, <<Ch(" ")>> \o Secret \o <<Ch(" ")>>, Secret \o Secret}

AuthTexts ==
    {<<>>,
     <<Ch("Bearer"), Ch(" ")>> \o Secret,
     <<Ch("bearer"), Ch(" "), Ch(" ")>> \o OtherSecret,
     <<Ch("Basic"), Ch(" ")>> \o Secret}

AuthHeaders ==
    {[NoHeaders EXCEPT !.xtoken = x, !.auth = a, !.qtoken = q] :
         x \in TokenTexts, a \in AuthTexts, q \in {<<>>, Secret, OtherSecret}}

ServerTokens == {<<>>, <<Ch(" ")>>, Secret, Secret \o <<Ch(" ")>>}

InitAuth ==
    /\ InitRequests
    /\ token \in ServerTokens
    /\ audit = FALSE
    /\ maxBody = 1
    /\ previewLimit = 1
    /\ maxRecords = 1

AuthIngest(p) ==
    \/ Arrives(p) /\ Quiet /\ \E h \in AuthHeaders : RejectToken(p, h)
    \/ Arrives(p) /\ Quiet /\ \E h \in AuthHeaders : RejectHeader(p, h, BadLength)
    \/ Arrives(p) /\ Quiet /\ \E h \in AuthHeaders : Accept(p, h, NoLength, SameSecond(p), 1)
    \/ OpenBody(p)
    \/ Receive(p, StoreChunk)
    \/ FlushBody(p)
    \/ EndBody(p)
    \/ RenameBody(p)
    \/ WriteRecordOpen(p)
    \/ WriteRecordData(p)
    \/ RenameRecord(p)

NextAuth ==
    \/ \E p \in 1..2 : AuthIngest(p)
    \/ \E p \in 1..2 : Retention(p)

SpecAuth == InitAuth /\ [][NextAuth]_vars

\* --------------------------------------------------------------- SpecSniff
\* Two puts one after another, retention off, each with one of the
\* content-type headers below and any payload of up to one byte more than
\* the largest preview, made of the digit 1 and of a byte that is not UTF-8,
\* sent byte by byte: pairs of bodies that agree on the preview window and
\* differ after it, and pairs that differ inside it.
SniffBytes == {49, 169}

SniffTypes ==
    {<<>>,
     <<Ch("application/json")>>,
     <<Ch(" "), Ch("application/json"), Ch(";"), Ch(" "), Ch("charset=utf-8")>>}

InitSniff ==
    /\ InitRequests
    /\ token = Secret
    /\ audit = FALSE
    /\ maxBody = MaxPreview + 1
    /\ previewLimit \in 0..MaxPreview
    /\ maxRecords = 0

SniffIngest(p) ==
    \/ /\ Arrives(p) /\ Quiet
       /\ \E raw \in SniffTypes, n \in 1..(MaxPreview + 1) :
              Accept(p, [Plain EXCEPT !.ctype = raw], NoLength, SameSecond(p), n)
    \/ OpenBody(p)
    \/ \E b \in SniffBytes : Receive(p, <<b>>)
    \/ FlushBody(p)
    \/ EndBody(p)
    \/ RenameBody(p)
    \/ WriteRecordOpen(p)
    \/ WriteRecordData(p)
    \/ RenameRecord(p)

NextSniff == \E p \in 1..2 : SniffIngest(p)

SpecSniff == InitSniff /\ [][NextSniff]_vars

\* --------------------------------------------------- utcNowStamp, 23..32
\* File names as the strings the code builds and Array.prototype.sort
\* compares: sequences of UTF-16 code units.
RECURSIVE Digits(_)
\* String(n) for an integer n >= 0
Digits(n) == IF n < 10 THEN <<48 + n>> ELSE Digits(n \div 10) \o <<48 + (n % 10)>>

\* Mutant: the field is not padded.
PadStartNone(str, width) == str

RECURSIVE PadStart(_, _)
\* str.padStart(width, '0')
PadStart(str, width) == IF Len(str) >= width THEN str ELSE PadStart(<<48>> \o str, width)

\* utcNowStamp() at the instant d; d.month is getUTCMonth(), from 0.
UtcNowStamp(d) ==
    PadStart(Digits(d.year), 4) \o PadStart(Digits(d.month + 1), 2) \o PadStart(Digits(d.date), 2)
        \o <<84>>
        \o PadStart(Digits(d.hours), 2) \o PadStart(Digits(d.minutes), 2)
        \o PadStart(Digits(d.seconds), 2)
        \o <<90>>

HexDigit(v) == IF v < 10 THEN 48 + v ELSE 87 + v

RECURSIVE ToHex(_)
\* buf.toString('hex')
ToHex(bytes) ==
    IF bytes = <<>> THEN <<>>
    ELSE <<HexDigit(Head(bytes) \div 16), HexDigit(Head(bytes) % 16)>> \o ToHex(Tail(bytes))

DotJson == <<46, 106, 115, 111, 110>>
DotBody == <<46, 98, 111, 100, 121>>

\* `${now}-${ident}` followed by an extension (72..75).
FileText(d, random, ext) == UtcNowStamp(d) \o <<45>> \o ToHex(random) \o ext

RECURSIVE StrLess(_, _)
\* a < b on strings: the first code unit that differs decides, a proper
\* prefix is smaller.
StrLess(a, b) ==
    IF b = <<>> THEN FALSE
    ELSE IF a = <<>> THEN TRUE
    ELSE IF Head(a) # Head(b) THEN Head(a) < Head(b)
    ELSE StrLess(Tail(a), Tail(b))

\* --------------------------------------------------------------- SpecStamp
\* Two puts one after another, retention off, whose ids are taken at the
\* instants below (the clock never goes back) with random bytes that end in
\* 00, 09, 0a or ff.  The instants, in the order of time, lie on both sides
\* of a change of every field of the stamp and of its number of digits.
Instant(y, mo, da, hh, mm, ss) ==
    [year |-> y, month |-> mo, date |-> da, hours |-> hh, minutes |-> mm, seconds |-> ss]

Instants ==
    <<Instant(999, 11, 31, 23, 59, 59),
      Instant(1000, 0, 1, 0, 0, 0),
      Instant(2026, 8, 9, 9, 9, 9),
      Instant(2026, 8, 9, 9, 9, 10),
      Instant(2026, 8, 9, 9, 10, 0),
      Instant(2026, 8, 9, 10, 0, 0),
      Instant(2026, 8, 10, 0, 0, 0),
      Instant(2026, 9, 1, 0, 0, 0),
      Instant(9999, 11, 31, 23, 59, 59)>>

\* The clock counts the instants from 0; the random bytes are five zero
\* bytes and the byte of the id.
RandomBytes(k) == <<0, 0, 0, 0, 0, k>>

StampIds == {<<c, k>> : c \in 0..(Len(Instants) - 1), k \in {0, 9, 10, 255}}

InitStamp ==
    /\ InitRequests
    /\ token = Secret
    /\ audit = FALSE
    /\ maxBody = 1
    /\ previewLimit = 1
    /\ maxRecords = 0

StampIngest(p) ==
    \/ /\ Arrives(p) /\ Quiet
       /\ \E i \in StampIds : Fresh(i) /\ Accept(p, Plain, NoLength, i, 1)
    \/ OpenBody(p)
    \/ Receive(p, StoreChunk)
    \/ FlushBody(p)
    \/ EndBody(p)
    \/ RenameBody(p)
    \/ WriteRecordOpen(p)
    \/ WriteRecordData(p)
    \/ RenameRecord(p)

NextStamp == \E p \in 1..2 : StampIngest(p)

SpecStamp == InitStamp /\ [][NextStamp]_vars

\* ---------------------------------------------------------------- SpecPeek
\* Two ingests with distinct ids and a reader of the detail view and of the
\* raw download that asks for the files of the first ingest by their names:
\* the record document, the temp record, the blob and the temp blob.
PeekNames ==
    {RecordName(SameSecond(1)), TmpRecordPath(SameSecond(1)),
     BodyName(SameSecond(1)), TmpBodyPath(SameSecond(1))}

InitPeek ==
    /\ InitRequests
    /\ token = Secret
    /\ audit = FALSE
    /\ maxBody = 1
    /\ previewLimit = 1
    /\ maxRecords \in 1..MaxKeep

PeekReader ==
    \/ \E name \in PeekNames, raw \in BOOLEAN : GetAccess(NameText(name), raw)
    \/ GetRead
    \/ RawAccess
    \/ RawOpen

NextPeek ==
    \/ \E p \in 1..2 : Ingest(p)
    \/ \E p \in 1..2 : Retention(p)
    \/ PeekReader

SpecPeek == InitPeek /\ [][NextPeek]_vars

\* -------------------------------------------------------------- SpecAnswer
\* Two POSTs on every path of the handler: a token or a content-length that
\* is refused, payloads of 0 to maxBody + 1 bytes sent byte by byte with or
\* without a declared length, a client that disconnects, every filesystem
\* call of the ingest and of enforceRetention failing or not.
InitAnswer ==
    /\ InitRequests
    /\ token = Secret
    /\ audit = FALSE
    /\ maxBody = 2
    /\ previewLimit = 1
    /\ maxRecords = 1

AnswerArrival(p) ==
    \/ RejectToken(p, NoHeaders)
    \/ \E cl \in {BadLength, 0, maxBody + 1} : RejectHeader(p, Plain, cl)
    \/ \E cl \in {NoLength, maxBody}, n \in 0..(maxBody + 1) :
           Accept(p, Plain, cl, SameSecond(p), n)

\* The steps of a request that has arrived: the client's, the handler's and
\* those of the filesystem calls it awaits.
AnswerStep(p) ==
    \/ OpenBody(p)
    \/ OpenBodyFails(p)
    \/ Receive(p, StoreChunk)
    \/ FlushBody(p)
    \/ WriteBodyFails(p)
    \/ EndBody(p)
    \/ AbortBody(p)
    \/ FailBody(p)
    \/ EmptyBody(p)
    \/ LengthMismatch(p)
    \/ RenameBody(p)
    \/ RenameBodyFails(p)
    \/ WriteRecordOpen(p)
    \/ WriteRecordOpenFails(p)
    \/ WriteRecordData(p)
    \/ WriteRecordDataFails(p)
    \/ RenameRecord(p)
    \/ RenameRecordFails(p)
    \/ Retention(p)
    \/ RetentionListFails(p)
    \/ RetentionReadFails(p)
    \/ RetentionUnlinkRecordFails(p)
    \/ RetentionUnlinkBodyFails(p)

NextAnswer ==
    \/ \E p \in 1..2 : AnswerArrival(p)
    \/ \E p \in 1..2 : AnswerStep(p)

SpecAnswer == InitAnswer /\ [][NextAnswer]_vars

\* The event loop runs every callback that is ready, every filesystem call
\* made completes or fails, and a client sends, ends or drops its body: a
\* step of a request that stays possible is taken.
AnswerFairness == \A p \in 1..2 : WF_vars(AnswerStep(p))

SpecAnswerLive == SpecAnswer /\ AnswerFairness

\* ================================================================== claims
FilesOf(i) == {n \in DOMAIN fs : n.id = i}

Done(p) == pc[p] = "done"

\* The request passed the header checks and was given an id.
Admitted(p) == id[p] # NoId

\* ---------------------------------------------------------------------- C1
\* The ingest of p has renamed its blob and then its record document.
HasPublished(p) == InRetention(p) \/ resp[p].code = 200

\* The blob and the document of `name` were both renamed to their final path
\* before now.
Published(name) == \E p \in Reqs : id[p] = name.id /\ HasPublished(p)

\* The document at `name` is complete and its blob holds the whole payload.
Intact(name) ==
    /\ Parses(fs, name)
    /\ Exists(fs, PathJoin(fs[name].doc.body_file))
    /\ \E p \in Reqs :
           /\ id[p] = name.id
           /\ fs[name].doc = BuildRecord(BodyName(id[p]), ContentType(hdr[p].ctype), tap[p])
           /\ fs[PathJoin(fs[name].doc.body_file)].bytes = sent[p]
           /\ Len(sent[p]) = total[p]

StreamErrors == {"PAYLOAD_TOO_LARGE", "TOO_MUCH_DATA", "ABORTED"}

\* C2: for every ingest aborted by a stream error (size violation, length
\* violation, client disconnect at any chunk boundary), no blob or record of
\* it is ever created, and once it has ended the store directory holds no
\* file derived from its id.
C2_AbortLeavesNothing ==
    \A p \in Reqs :
        err[p] \in StreamErrors =>
            /\ ~Exists(fs, BodyName(id[p]))
            /\ ~Exists(fs, TmpRecordPath(id[p]))
            /\ ~Exists(fs, RecordName(id[p]))
            /\ Done(p) => FilesOf(id[p]) = {}

\* A client disconnected after part of the body was received, and the
\* ingest has ended.
C2_Witness ==
    \E p \in Reqs :
        Done(p) /\ err[p] = "ABORTED" /\ Len(sent[p]) > 0 /\ maxBody > Len(sent[p])

\* ---------------------------------------------------------------------- C3
\* The requests answered 200, and the N most recent of them.
Succeeded == {p \in Reqs : resp[p].code = 200}

MostRecent(n) == {p \in Succeeded : Cardinality({q \in Succeeded : q > p}) < n}

\* C3 as written: after put number k of a sequence of successful puts on an
\* initially empty store with keepCount = N > 0, exactly min(k, N) records
\* are listable and they are the N most recently ingested ones, for every
\* assignment of timestamps and random suffixes.
C3_Original ==
    Quiet =>
        /\ Cardinality(JsonNames(fs)) = Min(Cardinality(Succeeded), maxRecords)
        /\ JsonNames(fs) = {RecordName(id[p]) : p \in MostRecent(maxRecords)}

\* ---------------------------------------------------------------------- C4
\* C4: whenever enforceRetention returns with keepCount > 0 and no other
\* ingest is running, the store directory holds at most keepCount record
\* documents.
C4_AtMostKeep ==
    (Quiet /\ maxRecords > 0 /\ Succeeded # {}) =>
        Cardinality(JsonNames(fs)) <= maxRecords

\* More puts have succeeded than are kept, and the directory is full.
C4_Witness ==
    /\ Quiet
    /\ Cardinality(Succeeded) > maxRecords
    /\ Cardinality(JsonNames(fs)) = maxRecords

\* ---------------------------------------------------------------------- C5
\* The keep newest record documents present in the directory.
KeepWindow(f, keep) ==
    {n \in JsonNames(f) : Cardinality({m \in JsonNames(f) : NameLess(n, m)}) < keep}

\* C5: under any interleaving of concurrent ingests and enforceRetention
\* calls, no step deletes a record document that, at that moment, is among
\* the keepCount greatest record names present in the directory.
C5_NeverEvictsKeepWindow ==
    [][\A n \in JsonNames(fs) : n \notin DOMAIN fs' => n \notin KeepWindow(fs, maxRecords)]_vars

\* A record was deleted from a list taken before another ingest published.
C5_Witness ==
    \E p, q \in Reqs :
        /\ p # q
        /\ pc[p] = "ret_unlink_body"
        /\ ~Exists(fs, Head(ret[p].stale))
        /\ InRetention(q)

\* --------------------------------------------------------------------- C11
\* Request p was given the id of an earlier request whose record was
\* published or whose handler was in flight.
Collided(p) == \E q \in Reqs : q < p /\ id[p] # NoId /\ id[q] = id[p]

\* C11 as written: a put that is assigned the id of a published record or of
\* an ingest in flight fails explicitly, and no step changes the content of a
\* published record document or of its blob while they exist.
C11_Original ==
    /\ [](\A p \in Reqs : (Collided(p) /\ Done(p)) => resp[p].code # 200)
    /\ [][\A n \in JsonNames(fs) :
              /\ n \in DOMAIN fs' => fs'[n] = fs[n]
              /\ (BodyName(n.id) \in DOMAIN fs /\ BodyName(n.id) \in DOMAIN fs') =>
                     fs'[BodyName(n.id)] = fs[BodyName(n.id)]]_vars

\* --------------------------------------------------------------------- C12
\* The files an ingest in flight has created and not yet published: its temp
\* blob once its write stream is open, then its blob, then its temp record.
CreatedBy(q) ==
    LET made == IF pc[q] \in {"stream", "ending"} THEN {TmpBodyPath(id[q])}
                ELSE IF pc[q] = "renamed" THEN {BodyName(id[q])}
                ELSE IF pc[q] \in {"recopen", "recwritten"}
                     THEN {BodyName(id[q]), TmpRecordPath(id[q])}
                ELSE {}
    IN made \cap DOMAIN fs

\* C12 as written: the step in which a failing ingest cleans up deletes or
\* changes no file that another ingest in flight created, and an ingest
\* never ends with a filesystem exception (500) when every other ingest that
\* shares its id has failed.
C12_Original ==
    /\ [][\A p, q \in Reqs :
              (p # q /\ pc[p] = "wfail" /\ pc'[p] = "done") =>
                  \A n \in CreatedBy(q) : n \in DOMAIN fs' /\ fs'[n] = fs[n]]_vars
    /\ [](\A q \in Reqs :
              (Done(q) /\ resp[q].code = 500) =>
                  \E p \in Reqs : p # q /\ id[p] = id[q]
                                  /\ ~(Done(p) /\ resp[p].code # 200))

\* --------------------------------------------------------------------- C13
\* C13 as written: an ingest either publishes both its blob and its record
\* or leaves nothing: once it has answered with an error after a filesystem
\* operation failed, none of its temp files, its blob or its record exists.
C13_Original ==
    \A p \in Reqs :
        (Done(p) /\ Admitted(p) /\ resp[p].code # 200) => FilesOf(id[p]) = {}

\* --------------------------------------------------------------------- C14
\* The ingests that have published their record and whose enforceRetention
\* has not returned yet.
Enforcing == {p \in Reqs : InRetention(p)}

\* C14: under any interleaving of concurrent ingests on a store that starts
\* with at most keepCount records (keepCount > 0), the number of listable
\* records never exceeds keepCount plus the number of ingests that have
\* published their record and whose enforceRetention has not yet returned.
C14_TransientExcess ==
    maxRecords > 0 =>
        Cardinality(JsonNames(fs)) <= maxRecords + Cardinality(Enforcing)

\* The directory holds more records than keepCount, as many more as there are
\* ingests inside enforceRetention.
C14_Witness ==
    /\ Enforcing # {}
    /\ Cardinality(JsonNames(fs)) = maxRecords + Cardinality(Enforcing)

\* --------------------------------------------------------------------- C15
\* C15: for concurrent ingests with keepCount > 0 and no unlink failure, once
\* every ingest has finished (each enforceRetention has returned) the number
\* of listable records is at most keepCount, with no further put.
C15_SettlesWithinKeep ==
    (maxRecords > 0 /\ \A p \in ConcReqs : Done(p)) =>
        Cardinality(JsonNames(fs)) <= maxRecords

\* Every ingest has succeeded, more of them than records are kept, and the
\* directory is full.
C15_Witness ==
    /\ \A p \in ConcReqs : Done(p) /\ resp[p].code = 200
    /\ NumConc > maxRecords
    /\ Cardinality(JsonNames(fs)) = maxRecords

\* --------------------------------------------------------------------- C16
\* A text that is empty or contains '..', '/' or '\'.
RejectedText(t) ==
    \/ t = <<>>
    \/ \E k \in 1..Len(t) : t[k].ch \in {"/", "\\"}
    \/ \E k \in 1..(Len(t) - 1) : t[k].ch = "." /\ t[k + 1].ch = "."

\* The reader is inside or past handleGetView / handleGetRaw.
Getting == rd.pc \in {"get_read", "raw_access", "raw_open", "got"}

\* C16: get and openBlob called with an id that is empty or contains '..',
\* '/' or '\' answer 400 at once: the handler never waits for a filesystem
\* call, resolves no file name, reads no document and streams nothing.
C16_InvalidIdNoAccess ==
    (Getting /\ RejectedText(rd.query)) =>
        /\ rd.pc = "got"
        /\ rd.code = 400
        /\ rd.name = NoName
        /\ rd.doc = NoDoc
        /\ ~rd.streamed

\* An id made of a record's name followed by a separator was refused.
C16_Witness ==
    /\ rd.pc = "got" /\ rd.code = 400
    /\ Len(rd.query) = 2
    /\ rd.query[1].ch = "name" /\ rd.query[2].ch \in {"/", "\\"}

\* --------------------------------------------------------------------- C17
\* C17 as written: for a get with a valid id, under any interleaving with
\* ingests and retention, the step that reads the document answers 404 when
\* the document is absent at that moment, and answers 500 only when a
\* document is present and is not valid JSON.
C17_Original ==
    [][(rd.pc = "get_read" /\ rd'.pc # "get_read") =>
           /\ ~Exists(fs, rd.name) => rd'.code = 404
           /\ rd'.code = 500 => (Exists(fs, rd.name) /\ ~Parses(fs, rd.name))]_vars

\* --------------------------------------------------------------------- C18
\* C18: a list returns at most `limit` entries; they are the records with the
\* greatest ids present in the directory, in strictly descending id order,
\* none listed twice, and no temp file or blob among them.
C18_ListNewestFirst ==
    rd.pc = "listed" =>
        LET listed == {rd.out[k].name : k \in 1..Len(rd.out)}
        IN /\ Len(rd.out) <= ListLimit
           /\ Len(rd.out) = Min(Cardinality(JsonNames(fs)), ListLimit)
           /\ \A n \in listed : n \in DOMAIN fs /\ n.ext = "json"
           /\ \A k \in 1..(Len(rd.out) - 1) : NameLess(rd.out[k + 1].name, rd.out[k].name)
           /\ \A n \in JsonNames(fs) \ listed : \A m \in listed : NameLess(n, m)

\* A list of a directory with more records than the limit was returned.
C18_Witness ==
    /\ rd.pc = "listed"
    /\ Len(rd.out) = ListLimit
    /\ Cardinality(JsonNames(fs)) > ListLimit

\* --------------------------------------------------------------------- C19
\* C19 as written: a list never fails because of a record document that is
\* missing or not valid JSON when it is read, and such a document is skipped:
\* every entry returned is of a document that was read and parsed.
C19_Original ==
    /\ rd.pc = "listed" => rd.code = 200
    /\ \A k \in 1..Len(rd.out) : rd.out[k].parsed

\* --------------------------------------------------------------------- C20
\* The body reference of the record handleGetRaw has resolved.
BodyRef == Trim(rd.doc.body_file)

\* C20: openBlob opens a blob only after resolving the record and checking
\* its body reference.  A reference that is empty or contains '..', '/' or
\* '\', or whose blob is absent, is answered 404 and no file is opened;
\* otherwise exactly the file of the store directory that the reference
\* names is served.
C20_BlobOnlyByCheckedRef ==
    /\ rd.pc \in {"raw_access", "raw_open"} =>
           /\ rd.raw /\ Parses(fs, rd.name) /\ rd.doc = fs[rd.name].doc
           /\ ~RejectedText(BodyRef)
    /\ rd.pc = "raw_open" => Exists(fs, PathJoin(BodyRef))
    /\ rd.streamed =>
           /\ rd.raw /\ rd.code = 200
           /\ Parses(fs, rd.name) /\ rd.doc = fs[rd.name].doc
           /\ ~RejectedText(BodyRef)
           /\ Len(BodyRef) = 1 /\ BodyRef[1].ch = "name"
           /\ BodyRef[1].ref \in DOMAIN fs \ {Outside}
           /\ rd.bytes = fs[BodyRef[1].ref].bytes
    /\ (rd.pc = "got" /\ rd.raw /\ Parses(fs, rd.name)) =>
           LET ref == Trim(fs[rd.name].doc.body_file)
           IN IF RejectedText(ref) \/ ~Exists(fs, PathJoin(ref))
              THEN rd.code = 404 /\ ~rd.streamed
              ELSE rd.code = 200 /\ rd.streamed

\* Downloads were answered 404 for a reference that leads out of the
\* directory, and served for a reference written with blanks around it.
C20_Witness ==
    /\ rd.pc = "got" /\ rd.raw
    /\ \/ rd.name = RecordName(Traversal) /\ rd.code = 404
       \/ rd.name = RecordName(Padded) /\ rd.streamed

\* --------------------------------------------------------------------- C21
\* The record documents at their final path, each with the request that
\* wrote it.
Written == {p \in Reqs : Admitted(p) /\ Parses(fs, RecordName(id[p]))}

\* The preview of request p: the first previewLimit bytes it sent.
PreviewOf(p) == Take(sent[p], previewLimit)

\* C21 as written, for the records with a non-empty preview: if the
\* normalized content type is a JSON type and the preview parses as JSON,
\* body_json holds the parsed value; otherwise, if the preview is strictly
\* valid UTF-8, body_text holds its decoding; otherwise body_b64 holds the
\* base64 of the preview.
C21_Original ==
    \A p \in Written :
        LET doc == fs[RecordName(id[p])].doc
            strict == DecodeUtf8Strict(PreviewOf(p))
            json == doc.content_type \in {<<Ch("application/json")>>, <<Ch("text/json")>>}
        IN PreviewOf(p) # <<>> =>
               IF json /\ strict.ok /\ JsonParse(strict.text).ok
               THEN doc.body_json = Val(JsonParse(strict.text).value)
               ELSE IF strict.ok THEN doc.body_text = Val(strict.text)
               ELSE doc.body_b64 = Val(Base64(PreviewOf(p)))

\* --------------------------------------------------------------------- C22
\* The decoded fields of a document that are not null.
Populated(doc) ==
    {f \in {"body_json", "body_text", "body_b64"} : ~doc[f].null}

\* C22: in every record document in the directory, at its temporary or at
\* its final path, at most one of body_json, body_text and body_b64 is
\* non-null.
C22_AtMostOneDecoded ==
    \A n \in DOMAIN fs : fs[n].kind = "json" => Cardinality(Populated(fs[n].doc)) <= 1

\* Records were published with each of the three fields populated, the JSON
\* one from a preview with blanks around the value.
C22_Witness ==
    \E p \in Written :
        LET doc == fs[RecordName(id[p])].doc
        IN \/ Populated(doc) = {"body_json"} /\ Len(doc.body_json.val) < Len(PreviewOf(p))
           \/ Populated(doc) = {"body_b64"} /\ Len(PreviewOf(p)) = MaxPreview

\* --------------------------------------------------------------------- C23
\* The calls request p's enforceRetention has made so far.
Log(p) == ret[p].log

\* The record documents request p's enforceRetention has deleted.
DeletedBy(p) ==
    {Log(p)[k].name : k \in {j \in 1..Len(Log(p)) :
        Log(p)[j].op = "unlink" /\ Log(p)[j].name.ext = "json" /\ Log(p)[j].ok}}

\* C23 as written: every enforceRetention call that deletes a record document
\* has also deleted that record's blob when it returns, and no step of an
\* enforceRetention call deletes the blob of a record whose document remains
\* in the directory.
C23_Original ==
    /\ [](\A p \in Reqs :
              Done(p) => \A n \in DeletedBy(p) : ~Exists(fs, BodyName(n.id)))
    /\ [][\A p \in Reqs : \A b \in DOMAIN fs :
              (InRetention(p) /\ b.ext = "body" /\ b \notin DOMAIN fs') =>
                  RecordName(b.id) \notin DOMAIN fs']_vars

\* --------------------------------------------------------------------- C24
\* C24: with keepCount <= 0 enforceRetention deletes nothing.  The step that
\* publishes a record and calls it changes the directory by that rename only
\* and answers 200; no listing, read or unlink is ever made; and with any
\* number of puts every record published is still there.
C24_KeepAllDeletesNothing ==
    /\ [](maxRecords <= 0 =>
              /\ \A p \in Reqs : ~InRetention(p) /\ ret[p] = NoRet
              /\ Quiet => JsonNames(fs) = {RecordName(id[p]) : p \in Succeeded})
    /\ [][\A p \in Reqs :
              (maxRecords <= 0 /\ pc[p] = "recwritten" /\ pc'[p] # "recwritten") =>
                  /\ fs' = Rename(fs, TmpRecordPath(id[p]), RecordName(id[p]))
                  /\ pc'[p] = "done" /\ resp'[p].code = 200]_vars

\* Every put of the run has succeeded with retention off, and every record
\* is in the directory.
C24_Witness ==
    /\ maxRecords <= 0
    /\ Cardinality(Succeeded) = NumReq
    /\ Cardinality(JsonNames(fs)) = NumReq

\* --------------------------------------------------------------------- C25
\* Where the handler of a put is before it publishes anything.
Unpublished == {"idle", "open", "stream", "ending", "wfail"}

\* What a step of request p's handler changes of the request itself.
Own(p) == <<pc[p], id[p], tap[p], pend[p], err[p], resp[p], sent[p]>>

\* Request p has failed: it was answered, and not with 200.
Failed(p) == Done(p) /\ resp[p].code # 200

\* The scenario: three puts of a size below the limit, the limit, and one
\* byte more, sent whole, with keepCount = 2.
Scenario ==
    /\ maxRecords = 2
    /\ \A p \in 1..3 : Done(p) /\ Len(sent[p]) = Min(total[p], maxBody + 1)
    /\ total[1] > 0 /\ total[1] < maxBody
    /\ total[2] = maxBody
    /\ total[3] = maxBody + 1
    /\ \A p \in 1..3 : clen[p] \in {NoLength, total[p]}

\* C25 as written: no step of a put that fails changes the record documents
\* of the directory, a failed put has made no call of enforceRetention, and
\* in the scenario the first two puts succeed, the third is answered 413 and
\* a list then returns exactly the second record followed by the first.
C25_Original ==
    /\ [][\A p \in Reqs :
              (/\ pc[p] \in Unpublished /\ Own(p)' # Own(p)
               /\ pc'[p] \in Unpublished \/ Failed(p)') =>
                  /\ JsonNames(fs') = JsonNames(fs)
                  /\ \A n \in JsonNames(fs) : fs'[n] = fs[n]]_vars
    /\ [](\A p \in Reqs : Failed(p) => (Log(p) = <<>> /\ ~Exists(fs, RecordName(id[p]))))
    /\ [](Scenario => (resp[1].code = 200 /\ resp[2].code = 200 /\ resp[3].code = 413))
    /\ [][(Scenario /\ rd.pc # "list_read" /\ rd'.pc \in {"list_read", "listed"}) =>
              rd'.todo = <<RecordName(id[2]), RecordName(id[1])>>]_vars

\* --------------------------------------------------------------------- C26
\* The tokens request p carries: its x-stockhook-token header, the
\* credentials of a bearer authorization header, its token query parameter.
Carried(p) ==
    LET auth == Trim(hdr[p].auth)
    IN {Trim(hdr[p].xtoken), Trim(hdr[p].qtoken)}
           \cup (IF StartsWithBearer(auth) THEN {Trim(SubSeq(auth, 3, Len(auth)))} ELSE {})

\* STOCKHOOK_TOKEN as the server reads it.
Configured == Trim(token)

\* Request p has allocated an id, read or stored a byte, or has a file.
Ingesting(p) ==
    \/ Admitted(p)
    \/ tap[p] # NoTap \/ pend[p] # <<>> \/ sent[p] # <<>>
    \/ InRetention(p) \/ resp[p].code = 200

Refused(p) ==
    /\ Done(p)
    /\ resp[p] \in {Response(401, "unauthorized"), Response(500, "server token not configured")}

\* C26: a put is ingested only when the server token is configured and the
\* request carries a token equal to it; with no server token the request is
\* answered 500 and with no token or only different ones 401, and the step
\* that refuses it is the request's only step: it allocates no id, reads no
\* byte of the body and leaves the store directory as it was.
C26_TokenGate ==
    /\ [](\A p \in Reqs :
              /\ Ingesting(p) => (Configured # <<>> /\ Configured \in Carried(p))
              /\ (Done(p) /\ Configured = <<>>) =>
                     resp[p] = Response(500, "server token not configured")
              /\ (Done(p) /\ Configured # <<>> /\ Configured \notin Carried(p)) =>
                     resp[p] = Response(401, "unauthorized")
              /\ Refused(p) => ~Ingesting(p))
    /\ [][\A p \in Reqs :
              Refused(p)' =>
                  \/ Refused(p)
                  \/ pc[p] = "idle" /\ fs' = fs /\ id' = id /\ tap' = tap /\ sent' = sent]_vars

\* A request refused with a token of the right length, after a put that
\* published its files.
C26_Witness ==
    /\ resp[1].code = 200
    /\ resp[2] = Response(401, "unauthorized")
    /\ GetProvidedToken(hdr[2]) # <<>>
    /\ Len(GetProvidedToken(hdr[2])) = Len(Configured)
    /\ DOMAIN fs # {}

\* --------------------------------------------------------------------- C27
\* The order of a put's steps, as pairs of positions of its handler: id
\* allocated, temp blob open, source ended, blob renamed, temp record open,
\* temp record written, record renamed and enforceRetention entered, the
\* calls of enforceRetention.
PutOrder ==
    {<<"idle", "open">>, <<"open", "stream">>, <<"stream", "ending">>,
     <<"ending", "renamed">>, <<"renamed", "recopen">>, <<"recopen", "recwritten">>,
     <<"recwritten", "readdir">>, <<"readdir", "ret_read">>, <<"ret_read", "ret_unlink">>,
     <<"ret_unlink", "ret_unlink_body">>, <<"ret_unlink", "ret_read">>,
     <<"ret_unlink_body", "ret_read">>}

\* C27: a put advances through its steps in the order above and in no other;
\* the blob is renamed only when every byte sent is in the temp file, the
\* record is written only with the blob at its final path and renamed only
\* when written whole, enforceRetention starts with the record published, a
\* 200 is sent only by enforceRetention returning (at once when keep <= 0),
\* and a put that failed has made no call of enforceRetention.
C27_StepOrder ==
    /\ [][\A p \in Reqs :
              /\ (pc'[p] # pc[p] /\ pc'[p] \notin {"done", "wfail"}) =>
                     <<pc[p], pc'[p]>> \in PutOrder
              /\ (pc'[p] # pc[p] /\ resp'[p].code = 200) =>
                     \/ InRetention(p) /\ Log(p)' # <<>>
                     \/ pc[p] = "recwritten" /\ maxRecords <= 0
              /\ (pc[p] # "open" /\ pc'[p] = "open") => id[p] = NoId /\ id'[p] # NoId
              /\ (pc[p] # "renamed" /\ pc'[p] = "renamed") =>
                     /\ pend[p] = <<>> /\ Len(sent[p]) = total[p]
                     /\ fs[TmpBodyPath(id[p])].bytes = sent[p]
                     /\ Exists(fs', BodyName(id[p]))
              /\ (pc[p] # "recopen" /\ pc'[p] = "recopen") =>
                     /\ Exists(fs, BodyName(id[p])) /\ ~Exists(fs, TmpBodyPath(id[p]))
                     /\ Exists(fs', TmpRecordPath(id[p]))
              /\ (pc[p] # "readdir" /\ pc'[p] = "readdir") =>
                     /\ fs[TmpRecordPath(id[p])].complete
                     /\ Exists(fs', RecordName(id[p])) /\ Exists(fs', BodyName(id[p]))
                     /\ Log(p) = <<>>
              /\ Log(p)' # Log(p) => InRetention(p)]_vars
    /\ [](\A p \in Reqs : Failed(p) => ret[p] = NoRet)

\* One put answered 200 after its enforceRetention returned, the other
\* failed after its id was allocated.
C27_Witness ==
    \E p, q \in Reqs :
        /\ resp[p].code = 200 /\ Log(p) # <<>>
        /\ Failed(q) /\ Admitted(q)

\* --------------------------------------------------------------------- C28
IsRead(e) == e.op = "read"

\* The stale records request p's enforceRetention has taken up so far, in
\* the order it did, and those still to come.
TakenUp(p) == [k \in 1..Len(SelectSeq(Log(p), IsRead)) |-> SelectSeq(Log(p), IsRead)[k].name]

Remaining(p) ==
    IF pc[p] = "ret_read" THEN ret[p].stale
    ELSE IF pc[p] \in {"ret_unlink", "ret_unlink_body"} THEN Tail(ret[p].stale)
    ELSE <<>>

\* The record documents of the directory request p's enforceRetention listed.
ListedBy(p) == JsonNames(fs) \cup {TakenUp(p)[k] : k \in 1..Len(TakenUp(p))}

\* The turn of the loop that began with call k of the log is over.
TurnOver(p, k) == Done(p) \/ \E j \in (k + 1)..Len(Log(p)) : IsRead(Log(p)[j])

\* C28: the stale records of an enforceRetention call that listed the
\* directory, those taken up and those to come, are the documents with at
\* least keepCount greater names, in descending order; the unlink of a blob
\* directly follows the unlink of the document that names it, itself after
\* the read of that document; and every record read with a usable reference
\* has its document and then its blob unlinked, whatever calls failed.
C28_DocumentThenBlob ==
    \A p \in Reqs :
        LET log == Log(p)
            all == TakenUp(p) \o Remaining(p)
        IN /\ (log # <<>> /\ log[1].ok) =>
                  /\ \A k \in 1..(Len(all) - 1) : NameLess(all[k + 1], all[k])
                  /\ {all[k] : k \in 1..Len(all)} =
                         {n \in ListedBy(p) :
                              Cardinality({m \in ListedBy(p) : NameLess(n, m)}) >= maxRecords}
           /\ \A k \in 1..Len(log) :
                  /\ (log[k].op = "unlink" /\ log[k].name.ext = "json") =>
                         k >= 2 /\ IsRead(log[k - 1]) /\ log[k - 1].name = log[k].name
                  /\ (log[k].op = "unlink" /\ log[k].name.ext # "json") =>
                         /\ k >= 3 /\ IsRead(log[k - 2])
                         /\ log[k - 1].op = "unlink" /\ log[k - 1].name = log[k - 2].name
                         /\ log[k].name = PathJoin(log[k - 2].ref)
                  /\ (IsRead(log[k]) /\ ~UnsafeRef(log[k].ref) /\ TurnOver(p, k)) =>
                         /\ Len(log) >= k + 2
                         /\ log[k + 1].op = "unlink" /\ log[k + 1].name = log[k].name
                         /\ log[k + 2].op = "unlink" /\ log[k + 2].name = PathJoin(log[k].ref)

\* An enforceRetention call that returned after the unlink of one stale
\* document failed and the blob of a later stale record was unlinked.
C28_Witness ==
    \E p \in Reqs : \E j, k \in 1..Len(Log(p)) :
        /\ Done(p) /\ j + 1 < k
        /\ Log(p)[j].op = "unlink" /\ Log(p)[j].name.ext = "json" /\ ~Log(p)[j].ok
        /\ Log(p)[k].op = "unlink" /\ Log(p)[k].name.ext = "body" /\ Log(p)[k].ok

\* --------------------------------------------------------------------- C29
\* Request p's enforceRetention is about to unlink a stale document from
\* which it has no usable body reference.
NoReference(p) ==
    /\ pc[p] = "ret_unlink"
    /\ LET name == Head(ret[p].stale)
       IN \/ ~Parses(fs, name)
          \/ ~Log(p)[Len(Log(p))].ok
          \/ Trim(fs[name].doc.body_file) = <<>>
          \/ IncludesDotDot(fs[name].doc.body_file)
          \/ Includes(fs[name].doc.body_file, "/")
          \/ Includes(fs[name].doc.body_file, "\\")

\* C29: the step that unlinks a stale document which could not be read or
\* parsed, or whose body_file is empty or not a plain file name, removes
\* that document unless the unlink itself fails, removes no other file, and
\* is the last step of the record's turn: no blob is unlinked for it.
C29_UnparsedDocumentDeleted ==
    [][\A p \in Reqs :
           (NoReference(p) /\ pc'[p] # "ret_unlink") =>
               LET name == Head(ret[p].stale)
                   last == Log(p)'[Len(Log(p)')]
               IN /\ DOMAIN fs \ DOMAIN fs' \subseteq {name}
                  /\ DOMAIN fs' \subseteq DOMAIN fs
                  /\ \A n \in DOMAIN fs' : fs'[n] = fs[n]
                  /\ last.op = "unlink" /\ last.name = name
                  /\ last.ok => ~Exists(fs', name)
                  /\ pc'[p] # "ret_unlink_body"
                  /\ Len(Log(p)') = Len(Log(p)) + 1]_vars

\* The corrupt document is gone and its blob is still there, after a call
\* that returned.
C29_Witness ==
    \E p \in Reqs :
        /\ Done(p)
        /\ \E k \in 1..Len(Log(p)) :
               IsRead(Log(p)[k]) /\ Log(p)[k].name = RecordName(Corrupt) /\ ~Log(p)[k].ok
        /\ ~Exists(fs, RecordName(Corrupt))
        /\ Exists(fs, BodyName(Corrupt))

\* --------------------------------------------------------------------- C30
\* The calls of request p's enforceRetention that failed.
FailedCalls(p) == {k \in 1..Len(Log(p)) : ~Log(p)[k].ok}

\* C30: a put that has entered enforceRetention never fails: it keeps its
\* record published and no error response, whatever call failed; a failed
\* call other than the listing is followed by the next call of the loop
\* (the stale records to come are left as they were, a failed read is
\* followed by the unlink of the document), and the put ends with 200.
C30_EvictionFailureNotFatal ==
    /\ [](\A p \in Reqs :
              Log(p) # <<>> =>
                  /\ InRetention(p) \/ (Done(p) /\ resp[p] = Response(200, "ok"))
                  /\ err[p] = None
                  /\ Parses(fs, RecordName(id[p]))
                  /\ (Done(p) /\ Log(p)[1].ok) => Remaining(p) = <<>>
                  /\ (Done(p) /\ ~Log(p)[1].ok) => Len(Log(p)) = 1)
    /\ [][\A p \in Reqs :
              (InRetention(p) /\ pc[p] # "readdir" /\ FailedCalls(p)' # FailedCalls(p)) =>
                  /\ fs' = fs
                  /\ Remaining(p)' = (IF pc[p] = "ret_read" THEN Tail(Remaining(p)) ELSE Remaining(p))
                  /\ pc[p] = "ret_read" => pc'[p] = "ret_unlink"
                  /\ Remaining(p)' # <<>> => InRetention(p)']_vars

\* A put answered 200 after its enforceRetention saw a read, a document
\* unlink and a blob unlink fail, the two files still in the directory.
C30_Witness ==
    \E p \in Reqs :
        /\ resp[p].code = 200
        /\ \E i, j, k \in FailedCalls(p) :
               /\ IsRead(Log(p)[i])
               /\ Log(p)[j].op = "unlink" /\ Log(p)[j].name.ext = "json" /\ Exists(fs, Log(p)[j].name)
               /\ Log(p)[k].op = "unlink" /\ Log(p)[k].name.ext = "body" /\ Exists(fs, Log(p)[k].name)

\* --------------------------------------------------------------------- C31
\* The bytes the tap of request p has forwarded: those in the temp file and
\* those the write stream still holds.
Forwarded(p) ==
    (IF Exists(fs, TmpBodyPath(id[p])) THEN fs[TmpBodyPath(id[p])].bytes ELSE <<>>) \o pend[p]

\* The most bytes the tap of request p lets through.
Allowed(p) == IF clen[p] = NoLength THEN maxBody ELSE Min(maxBody, clen[p])

Rejecting == {"PAYLOAD_TOO_LARGE", "TOO_MUCH_DATA"}

\* C31: while a body is streamed the bytes forwarded to the file are a
\* prefix of the bytes sent, of at most maxBytes bytes and at most the
\* declared length, and the hash is the digest of exactly these bytes; a
\* chunk is rejected exactly when it is the first to take the total over
\* one of the bounds, the rejected chunk changes neither hash, preview,
\* pending bytes nor file, and after it no chunk is taken.
C31_TapBounds ==
    /\ [](\A p \in Reqs :
              pc[p] \in {"stream", "ending", "wfail"} =>
                  /\ Len(Forwarded(p)) <= Allowed(p)
                  /\ Forwarded(p) = Take(sent[p], Len(Forwarded(p)))
                  /\ tap[p].hash = Sha256(Forwarded(p))
                  /\ err[p] = None => Forwarded(p) = sent[p])
    /\ [][\A p \in Reqs :
              /\ (pc[p] = "stream" /\ sent'[p] # sent[p]) =>
                     (err'[p] \in Rejecting <=> Len(sent'[p]) > Allowed(p))
              /\ (err[p] = None /\ err'[p] \in Rejecting) =>
                     /\ Len(sent[p]) <= Allowed(p)
                     /\ tap'[p].hash = tap[p].hash /\ tap'[p].preview = tap[p].preview
                     /\ pend'[p] = pend[p] /\ fs' = fs
              /\ err[p] \in Rejecting =>
                     /\ sent'[p] = sent[p] /\ tap'[p] = tap[p] /\ pend'[p] = pend[p]
                     /\ \A n \in DOMAIN fs' : fs'[n] = fs[n]]_vars

\* A chunk was rejected for the declared length after an earlier chunk was
\* forwarded, the limit not reached.
C31_Witness ==
    /\ err[1] = "TOO_MUCH_DATA"
    /\ Forwarded(1) # <<>>
    /\ Len(sent[1]) <= maxBody
    /\ Len(sent[1]) - Len(Forwarded(1)) > 1

\* --------------------------------------------------------------------- C32
\* The bytes the tap of request p has accepted so far.
Accepted(p) == IF err[p] \in Rejecting THEN Len(Forwarded(p)) ELSE tap[p].written

\* C32: the preview buffer never holds more than previewLimit bytes nor more
\* than the bytes accepted so far; it only grows, by bytes of the chunk just
\* accepted, and not at all once it holds previewLimit bytes.
C32_PreviewBounded ==
    /\ [](\A p \in Reqs :
              /\ Len(tap[p].preview) <= previewLimit
              /\ pc[p] \in {"stream", "ending", "wfail"} =>
                     Len(tap[p].preview) <= Accepted(p))
    /\ [][\A p \in Reqs :
              /\ Len(tap'[p].preview) >= Len(tap[p].preview)
              /\ tap[p].preview = Take(tap'[p].preview, Len(tap[p].preview))
              /\ Len(tap[p].preview) >= previewLimit => tap'[p].preview = tap[p].preview
              /\ Len(tap'[p].preview) - Len(tap[p].preview) <= Len(sent'[p]) - Len(sent[p])]_vars

\* A preview that is full, two more bytes accepted after it.
C32_Witness ==
    /\ previewLimit > 0
    /\ Len(tap[1].preview) = previewLimit
    /\ tap[1].written >= previewLimit + 2
    /\ err[1] = None

\* --------------------------------------------------------------------- C33
\* The decoded fields of the record request p published.
DecodedOf(p) ==
    LET doc == fs[RecordName(id[p])].doc
    IN <<doc.body_json, doc.body_text, doc.body_b64>>

\* Requests p and q were sent with the same content type, raw headers
\* apart, and bodies that agree on their first previewLimit bytes.
SameWindow(p, q) ==
    /\ Trim(BeforeSemicolon(hdr[p].ctype)) = Trim(BeforeSemicolon(hdr[q].ctype))
    /\ \A k \in 1..previewLimit :
           /\ k <= Len(sent[p]) <=> k <= Len(sent[q])
           /\ k <= Len(sent[p]) => sent[p][k] = sent[q][k]

\* C33: two published records whose puts had the same content type and
\* bodies with the same first previewLimit bytes have the same body_json,
\* body_text and body_b64.
C33_DecodedFromPreviewOnly ==
    \A p, q \in Written : SameWindow(p, q) => DecodedOf(p) = DecodedOf(q)

\* Two records with the same decoded text or JSON value, from bodies of
\* different sizes that differ after the preview window and headers that
\* differ in their parameters.
C33_Witness ==
    /\ Written = {1, 2}
    /\ SameWindow(1, 2)
    /\ hdr[1].ctype # hdr[2].ctype
    /\ Len(sent[1]) # Len(sent[2])
    /\ \E k \in 1..Len(sent[1]) : k <= Len(sent[2]) /\ sent[1][k] # sent[2][k]
    /\ \E f \in 1..2 : ~DecodedOf(1)[f].null

\* --------------------------------------------------------------------- C34
\* The names of the record document and of the blob of the id i, as strings.
RecordText(i) == FileText(Instants[i[1] + 1], RandomBytes(i[2]), DotJson)
BodyText(i) == FileText(Instants[i[1] + 1], RandomBytes(i[2]), DotBody)

\* C34: of two ingests whose ids were allocated in different clock seconds
\* the later one has the greater record name, and the greater blob name, in
\* plain string comparison; the order of two record names as strings is the
\* order of their ids by second, then random bytes; every file in the
\* directory carries the id of an ingest, a record document references the
\* blob of its own id, and the two names are the same string up to the
\* extension.
C34_NamesFollowClock ==
    /\ \A p, q \in Reqs :
           (Admitted(p) /\ Admitted(q)) =>
               /\ id[p][1] < id[q][1] =>
                      /\ StrLess(RecordText(id[p]), RecordText(id[q]))
                      /\ StrLess(BodyText(id[p]), BodyText(id[q]))
               /\ NameLess(RecordName(id[p]), RecordName(id[q]))
                      <=> StrLess(RecordText(id[p]), RecordText(id[q]))
    /\ \A n \in DOMAIN fs : \E p \in Reqs : Admitted(p) /\ n.id = id[p]
    /\ \A p \in Reqs :
           Admitted(p) =>
               /\ Exists(fs, RecordName(id[p])) =>
                      fs[RecordName(id[p])].doc.body_file = NameText(BodyName(id[p]))
               /\ SubSeq(RecordText(id[p]), 1, Len(RecordText(id[p])) - Len(DotJson))
                      = SubSeq(BodyText(id[p]), 1, Len(BodyText(id[p])) - Len(DotBody))

\* Two records published, the second one second after the first, at a
\* change of the number of digits of the seconds, with smaller random bytes.
C34_Witness ==
    /\ Written = {1, 2}
    /\ Instants[id[1][1] + 1].seconds = 9 /\ Instants[id[2][1] + 1].seconds = 10
    /\ id[1][2] = 255 /\ id[2][2] = 0

\* --------------------------------------------------------------------- C35
\* C35 as written: in every state, the blob that a record document of the
\* directory references is in the directory, at its final path.
C35_Original ==
    \A n \in JsonNames(fs) :
        Parses(fs, n) => Exists(fs, PathJoin(Trim(fs[n].doc.body_file)))

\* --------------------------------------------------------------------- C36
\* The step on which the record document of request p appears at its final
\* path.
Appears(p) ==
    /\ Admitted(p)
    /\ ~Exists(fs, RecordName(id[p])) /\ Exists(fs', RecordName(id[p]))

\* Request p has renamed its record document and not answered yet.
Publishing(p) == InRetention(p)

\* The step on which rename(tmpRecordPath, recordPath) of request p succeeds.
Renames(p) ==
    /\ pc[p] = "recwritten" /\ pc'[p] # "recwritten"
    /\ Exists(fs, TmpRecordPath(id[p]))
    /\ fs' = Rename(fs, TmpRecordPath(id[p]), RecordName(id[p]))

\* Request p answers 200 exactly when its own rename of the temp record
\* succeeded: from that step on it is inside enforceRetention until it
\* answers, it answers 200, and it answers once.
SuccessIffRenamed(p) ==
    /\ Renames(p) => (Publishing(p)' \/ resp'[p] = Response(200, "ok"))
    /\ (Publishing(p)' /\ ~Publishing(p)) => Renames(p)
    /\ Publishing(p) => (Publishing(p)' \/ resp'[p] = Response(200, "ok"))
    /\ (resp'[p].code = 200 /\ resp[p].code # 200) => (Publishing(p) \/ Renames(p))
    /\ Done(p) => resp'[p] = resp[p]

\* No other request was given the id of request p.
Alone(p) == \A q \in Reqs \ {p} : id[q] # id[p]

\* C36 as written: a put answers 200 exactly when its record document was
\* renamed to its final path, and a put answered with an error has no record
\* document of its id in the directory.
C36_Original ==
    /\ [][\A p \in Reqs : SuccessIffRenamed(p)]_vars
    /\ [](\A p \in Reqs : Failed(p) => ~Exists(fs, RecordName(id[p])))

\* C36 (amended): a put answers 200 exactly when its record document was
\* renamed to its final path; when no other put was given its id, the record
\* document of that id appears only by the put's own rename, and a put
\* answered with an error has no record document of its id in the directory.
C36_SuccessIffPublished ==
    /\ [][\A p \in Reqs :
              /\ SuccessIffRenamed(p)
              /\ (Alone(p) /\ Alone(p)' /\ Appears(p)) => Renames(p)]_vars
    /\ [](\A p \in Reqs : (Failed(p) /\ Alone(p)) => ~Exists(fs, RecordName(id[p])))

\* One put, alone with its id, answered 500 with its complete temp record
\* left behind; the other answered 200.
C36_Witness ==
    \E p, q \in Reqs :
        /\ resp[p].code = 500
        /\ Alone(p)
        /\ Parses(fs, TmpRecordPath(id[p]))
        /\ resp[q].code = 200

\* --------------------------------------------------------------------- C37
\* C37 as written: whenever handleGetView or handleGetRaw has parsed a file
\* as the record of the id it was asked for, that file is a published record
\* document <id>.json, never a temp file or a blob.
C37_Original ==
    rd.doc # NoDoc => rd.name.ext = "json"

\* --------------------------------------------------------------------- C38
\* A present record document references the blob n.
Referenced(n) ==
    \E r \in JsonNames(fs) : Parses(fs, r) /\ PathJoin(Trim(fs[r].doc.body_file)) = n

TempFiles == {n \in DOMAIN fs : n.ext \in {"body.tmp", "json.tmp"}}

Blobs == {n \in DOMAIN fs : n.ext = "body"}

\* C38: without failing filesystem calls and with distinct ids, whenever no
\* ingest is in flight every blob of the directory is referenced by a record
\* document of the directory and the directory holds no temp file.
C38_NoOrphans ==
    Quiet => /\ \A n \in Blobs : Referenced(n)
             /\ TempFiles = {}

\* Two puts overlapped and both answered 200; retention deleted the record
\* and the blob of one of them, the other's are in the directory.
C38_Witness ==
    /\ Quiet
    /\ \E p, q \in Reqs :
           /\ resp[p].code = 200 /\ resp[q].code = 200
           /\ FilesOf(id[p]) = {}
           /\ FilesOf(id[q]) = {RecordName(id[q]), BodyName(id[q])}

\* --------------------------------------------------------------------- C39
\* A response of request p was sent.
Answered(p) == resp[p] # NoResp

\* C39: a POST is answered exactly when its handler ends, on every path; a
\* response once sent is never followed by another; and, the steps being
\* fair, every POST that arrived is answered.
C39_ExactlyOneResponse ==
    /\ [](\A p \in Reqs : Answered(p) <=> Done(p))
    /\ [][\A p \in Reqs : Answered(p) => (resp'[p] = resp[p] /\ Done(p)')]_vars
    /\ \A p \in Reqs : (pc[p] # "idle") ~> Answered(p)

\* One POST was answered 500 after rename(tmpRecordPath, recordPath) threw,
\* the other was answered 200.
C39_Witness ==
    \E p, q \in Reqs :
        /\ resp[p].code = 500 /\ Parses(fs, TmpRecordPath(id[p]))
        /\ resp[q].code = 200 /\ Exists(fs, RecordName(id[q]))
        /\ \A r \in Reqs : Answered(r) <=> r \in {p, q}

\* ---------------------------------------------------------------------- C6
\* C6: for every accepted payload of S bytes (0 < S <= maxBytes), in any
\* chunking, the blob at the final path holds exactly the S bytes sent, in
\* order; the record's body_size is S and its body_sha256 is the digest of
\* the bytes stored in the blob.
C6_BlobSizeDigest ==
    \A p \in Reqs :
        /\ Exists(fs, BodyName(id[p])) =>
               /\ fs[BodyName(id[p])].bytes = sent[p]
               /\ Len(sent[p]) = total[p]
               /\ total[p] > 0 /\ total[p] <= maxBody
        /\ Exists(fs, RecordName(id[p])) =>
               /\ Exists(fs, BodyName(id[p]))
               /\ fs[RecordName(id[p])].doc.body_size = total[p]
               /\ fs[RecordName(id[p])].doc.body_sha256 = Sha256(fs[BodyName(id[p])].bytes)
        /\ resp[p].code = 200 => Exists(fs, RecordName(id[p]))

\* A payload of more than one chunk was accepted and answered.
C6_Witness ==
    \E p \in Reqs :
        /\ resp[p].code = 200
        /\ Len(sent[p]) > MaxChunk
        /\ Exists(fs, RecordName(id[p]))

\* ---------------------------------------------------------------------- C7
\* C7 as written: every payload with S > maxBytes, whatever its chunking and
\* whatever length was declared, is answered 413 PayloadTooLarge and leaves
\* no file.  (Stated for the requests that reach the body stream and are not
\* cut by the client.)
C7_Original ==
    \A p \in Reqs :
        (Done(p) /\ Admitted(p) /\ total[p] > maxBody /\ err[p] # "ABORTED") =>
            /\ resp[p] = Response(413, "payload too large")
            /\ FilesOf(id[p]) = {}

\* C7 amended: every payload with S > maxBytes fails and leaves no file of
\* its ingest; the answer is 413 PayloadTooLarge when no length is declared
\* or the declared length is at least maxBytes, and more generally exactly
\* when the bytes received exceed maxBytes; with a smaller declared length
\* the chunk that exceeds it is answered 400.
C7_TooLargeFails ==
    \A p \in Reqs :
        (Done(p) /\ total[p] > maxBody /\ err[p] # "ABORTED") =>
            /\ resp[p].code \in {400, 413}
            /\ FilesOf(id[p]) = {}
            /\ (clen[p] = NoLength \/ clen[p] >= maxBody) =>
                   resp[p] = Response(413, "payload too large")
            /\ Admitted(p) => (resp[p].code = 413 <=> Len(sent[p]) > maxBody)

\* An oversize payload with no declared length, delivered in several chunks,
\* was answered 413.
C7_Witness ==
    \E p \in Reqs :
        /\ Done(p) /\ clen[p] = NoLength
        /\ total[p] > maxBody /\ maxBody >= MaxChunk
        /\ resp[p].code = 413

\* ---------------------------------------------------------------------- C8
\* C8: for every stored record with a body of S bytes and preview limit P,
\* the preview captured by writeBodyToFile is the first min(S, P) bytes of
\* the body, and preview_truncated is true exactly when S exceeds the
\* preview's length.
C8_Preview ==
    \A p \in Reqs :
        Exists(fs, RecordName(id[p])) =>
            /\ tap[p].preview = Take(sent[p], previewLimit)
            /\ Len(tap[p].preview) = Min(total[p], previewLimit)
            /\ fs[RecordName(id[p])].doc.preview_truncated
                   = (total[p] > Len(tap[p].preview))

\* A stored record whose body is longer than a non-empty preview.
C8_Witness ==
    \E p \in Reqs :
        /\ Exists(fs, RecordName(id[p]))
        /\ previewLimit > 0 /\ total[p] > previewLimit
        /\ fs[RecordName(id[p])].doc.preview_truncated

\* ---------------------------------------------------------------------- C9
\* The bytes received differ from the declared length L (0 < L <= maxBytes).
LengthDiffers(p) ==
    Admitted(p) /\ clen[p] # NoLength /\ Len(sent[p]) # clen[p]

\* C9 as written: when a length L is declared and the bytes received differ
\* from it, the put is answered 400, no record is created and no file of the
\* ingest remains.
C9_Original ==
    \A p \in Reqs :
        (Done(p) /\ LengthDiffers(p)) =>
            /\ resp[p].code = 400
            /\ FilesOf(id[p]) = {}

\* C9 amended: when a length L is declared and the bytes received differ
\* from it, the put fails, no record is created and no file of the ingest
\* remains; the answer is 400, except that it is 413 PayloadTooLarge when the
\* bytes received also exceed maxBytes.
C9_LengthMismatchFails ==
    \A p \in Reqs :
        /\ LengthDiffers(p) =>
               /\ ~Exists(fs, RecordName(id[p]))
               /\ ~Exists(fs, TmpRecordPath(id[p]))
               /\ ~Exists(fs, BodyName(id[p]))
        /\ (Done(p) /\ LengthDiffers(p)) =>
               /\ resp[p].code = (IF Len(sent[p]) > maxBody THEN 413 ELSE 400)
               /\ FilesOf(id[p]) = {}

\* A stream that ended short of its declared length was answered 400.
C9_Witness ==
    \E p \in Reqs :
        /\ Done(p) /\ LengthDiffers(p)
        /\ err[p] = None /\ Len(sent[p]) > 0 /\ Len(sent[p]) < clen[p]
        /\ resp[p] = Response(400, "incomplete body")

\* --------------------------------------------------------------------- C10
\* The put receives zero body bytes: a declared length of 0, or no declared
\* length and an empty stream.
ZeroBytes(p) == clen[p] = 0 \/ (Admitted(p) /\ clen[p] = NoLength /\ total[p] = 0)

\* C10: a put that receives zero body bytes is answered 400 'empty body'; no
\* record is created and no temp or blob file of the ingest remains.
C10_EmptyBody ==
    \A p \in Reqs :
        /\ ZeroBytes(p) =>
               /\ ~Exists(fs, RecordName(id[p]))
               /\ ~Exists(fs, TmpRecordPath(id[p]))
               /\ ~Exists(fs, BodyName(id[p]))
        /\ (Done(p) /\ ZeroBytes(p)) =>
               /\ resp[p] = Response(400, "empty body")
               /\ FilesOf(id[p]) = {}

\* An empty stream with no declared length was answered.
C10_Witness ==
    \E p \in Reqs : Done(p) /\ Admitted(p) /\ clen[p] = NoLength /\ total[p] = 0

====
